---- MODULE Spec2Model ----
(***************************************************************************)
(* Verification model of levinOo/go-metrics-project.                       *)
(*                                                                         *)
(*   SpecStore     the storage engine: MemStorage and DBStorage driven by  *)
(*                 the same sequence of SetGauge / SetCounter /            *)
(*                 InsertMetricsBatch calls (internal/repository).         *)
(*   SpecSnapshot  MemStorage with the snapshot file: saveToFile on a tick *)
(*                 and on shutdown, loadFromFile on startup                *)
(*                 (internal/service).                                     *)
(*   SpecMemConc   request goroutines calling MemStorage concurrently,     *)
(*                 one step per lock / load / store / unlock.              *)
(*   SpecAgent     StartAgent's scheduling loop, poll and report           *)
(*                 goroutines, the semaphore and the metrics snapshot      *)
(*                 (internal/agent).                                       *)
(*   SpecSend      one sendMetricsBatch delivery through the retrying      *)
(*                 HTTP client (internal/agent).                           *)
(*                                                                         *)
(* Every specification shares Init; the variables of the other parts stay  *)
(* at their initial values.                                                *)
(***************************************************************************)
EXTENDS Integers, Sequences, FiniteSets, TLC

VARIABLES
    \* ---- storage engine (internal/repository) ----
    mem,          \* MemStorage: [Gauges, Counters], two maps keyed by name
    db,           \* DBStorage: table metrics, name -> [type, value, delta]
    lastG,        \* history: last gauge value written to each name, or "none"
    csum,         \* history: sum of the counter deltas written to each name
    wroteC,       \* history: names written as a counter
    gByBatch,     \* history: names whose last gauge write came from a batch
    batchObs,     \* history: what the last InsertMetricsBatch call did
    \* ---- snapshot file (internal/service) ----
    file,         \* the snapshot file: [exists, data]
    fresh,        \* history: the store is as the last saveToFile call saw it
    rt,           \* history: what the last restart with restore observed
    \* ---- request goroutines on MemStorage (internal/repository) ----
    mu,           \* MemStorage.mu: 0 when free, else the goroutine holding it
    pc,           \* where each request goroutine is in its call
    call,         \* the call each request goroutine is executing
    reg,          \* the value a goroutine has read from the map
    contended,    \* history: a goroutine has waited for mu
    \* ---- agent (internal/agent) ----
    rateLimit,    \* cfg.RateLimit
    metrics,      \* the shared store.Metrics (m in StartAgent): [Alloc, RandomValue, PollCount]
    ctxDone,      \* the shared context is cancelled
    mainPc,       \* StartAgent's own goroutine
    loopPc,       \* the scheduling loop goroutine
    waiterPc,     \* the goroutine that waits for wg and closes errCh
    pollTick,     \* a tick is pending on pollTicker.C
    reqTick,      \* a tick is pending on reqTicker.C
    pollPc,       \* where each poll goroutine is in CollectMetrics
    pollReg,      \* the PollCount a poll goroutine has read
    repPc,        \* where each report goroutine is
    copy,         \* the copy of *m each report goroutine passes on
    sem,          \* elements in the semaphore channel
    wg,           \* the WaitGroup counter
    errChClosed,  \* errCh is closed
    \* ---- one delivery (sendMetricsBatch) ----
    sendPc,       \* "Do" (an attempt is due), "Backoff" (waiting) or "done"
    sendI,        \* the loop index i of the retrying client.Do
    outcomes,     \* the outcome of every attempt made so far
    waits,        \* the waits slept between attempts, in seconds
    sendErr,      \* what sendMetricsBatch returned
    \* ---- server life cycle (internal/service) ----
    srvPc,        \* where Serve is
    cfgAddrDB,    \* cfg.AddrDB is set: the relational backend is used
    dbOpen,       \* the connection opened in setupServer is open
    componentsDbConn, \* components.dbConn is not nil
    saverPc,      \* the PeriodicSaver loop goroutine
    saverTick,    \* a tick is pending on the saver's ticker.C
    nSaves,       \* periodic saves started
    stopCh,       \* ps.stopCh is closed
    done,         \* ps.done is closed
    stopWaited,   \* history: Stop() was called during a periodic save
    steps,        \* history: the shutdown steps performed, in order
    drainErr,     \* srv.Shutdown returned an error
    saveErr,      \* the final saveToFile returned an error
    exitErr,      \* what Serve returned
    \* ---- restore at startup (internal/service) ----
    rpc,          \* "init", "placed" (a snapshot file is in place) or "loaded"
    rfile,        \* the snapshot file found at startup
    rstore,       \* the store after loadFromFile
    rerr,         \* what loadFromFile returned
    \* ---- one batch on the wire (internal/agent, internal/handler) ----
    wpc,          \* where the request is: the agent's build steps, then the server's stages
    wbatch,       \* metrics, the batch handed to sendMetricsBatch
    wkey,         \* the key both sides are configured with ("" is no key)
    wkeypair,     \* a keypair is configured: publicKey != nil, the server has the private key
    wdata,        \* data, the output of json.Marshal
    wbuffer,      \* buffer
    hashString,   \* hashString
    wreq,         \* the request posted
    wbody,        \* r.Body as the current server stage sees it
    wstatus,      \* the status the server answered, 0 while there is none
    wsteps,       \* history: the build steps the agent performed, in order
    \* ---- one request after another through the router (internal/handler) ----
    hpc,          \* "idle", "decompress", "handler" or "responded"
    hdb,          \* the store behind the handlers (table metrics)
    hreq,         \* the request being served
    hdown,        \* the backend fails every statement of this request with an I/O error
    hpre,         \* history: the store when the request arrived
    hbody,        \* r.Body as the next stage reads it
    hinvoked,     \* history: the wrapped handler was invoked
    hstorageErr,  \* history: what the storage call of the handler returned
    hstatus,      \* the status written, 0 while there is none
    hpanic,       \* the handler goroutine panicked: the connection is closed without a response
    hcount,       \* requests served so far
    htext,        \* the response body a read handler wrote
    \* ---- hybrid encryption (internal/cryptoutil) ----
    cpc,          \* "idle", "encrypted" or "decrypted"
    cplain,       \* the plaintext given to EncryptDataHybrid
    ckeypair,     \* the keypair in use
    cblob,        \* the bytes given to DecryptDataHybrid
    ctamper,      \* history: what was done to the ciphertext on the way
    cresult,      \* what DecryptDataHybrid returned
    \* ---- a batch against concurrent readers (internal/repository) ----
    bpc,          \* the batch goroutine: "idle", "loop" (in the loop of InsertMetricsBatch) or "returned"
    bmem,         \* the MemStorage
    bbatch,       \* metrics.List of the running call
    bidx,         \* records of the batch applied so far
    bpre,         \* history: the store when InsertMetricsBatch was called
    bobsAll,      \* history: what a GetAll during the call returned
    bobsGet,      \* history: what a GetGauge / GetCounter during the call returned
    bcalls,       \* InsertMetricsBatch calls so far
    \* ---- batches with value-less records (internal/repository) ----
    vpc,          \* "writes" (single writes so far) or "batch" (the batch call is over)
    vmem,         \* the MemStorage
    vdb,          \* the table behind the DBStorage
    vpre,         \* history: both stores when InsertMetricsBatch was called
    vbatch,       \* history: the batch
    vpanic,       \* MemStorage.InsertMetricsBatch panicked
    vwrites,      \* single writes so far
    \* ---- restarts over a persistent store (internal/service) ----
    ppc,          \* "running", "saved" (ended by a shutdown that saved), "unsaved" (ended
                  \* otherwise), or after setupServer has loaded the file: "restored" (the
                  \* process had saved) or "recovered" (it had not)
    pdb,          \* the table metrics, which outlives the process
    pfile,        \* the snapshot file
    pbefore,      \* history: the table when the last restart began
    prestarts,    \* restarts so far
    \* ---- PollCount from the agent to the server ----
    qmetrics,     \* the agent's store.Metrics: [PollCount]
    qpollPc,      \* where each CollectMetrics goroutine is: "idle", "CountStore" or "done"
    qpollReg,     \* the PollCount a CollectMetrics goroutine has read
    qreports,     \* history: the reports in the order their copy of *m was taken
    qserver,      \* the server's MemStorage
    \* ---- one SendAllMetricsBatch call (internal/agent) ----
    kpc,          \* the calling goroutine: "call", "range" (over errCh), "send" or "returned"
    km,           \* the argument m, a copy of the agent's store.Metrics
    kRateLimit,   \* the argument rateLimit
    kpending,     \* names the feeding goroutine has not yet sent on inputCh
    kinputClosed, \* inputCh is closed
    kworker,      \* where each worker goroutine is: "off", "recv", "append" or "done"
    kheld,        \* the record a worker has built and not yet appended
    kmetricsList, \* metricsList
    kwg,          \* the WaitGroup counter
    kerrChClosed, \* errCh is closed
    kposts,       \* POST attempts made by sendMetricsBatch
    kbody,        \* the batch the POSTs carry
    \* ---- Pool[*models.Metrics] (internal/pool) ----
    omu,          \* p.mu: the caller holding it, 0 when free
    oitems,       \* p.items
    oobj,         \* the fields of every object the factory has made
    onext,        \* objects the factory has made so far
    ocpc,         \* where each caller is
    oheld,        \* the object each caller holds, 0 for none
    ofromPool,    \* history: the object a caller was handed came from p.items
    owasTop,      \* history: it was then the object put most recently
    ostamp,       \* history: the time of the last Put of each object
    oclock        \* history: Puts completed so far

storeVars == <<mem, db, lastG, csum, wroteC, gByBatch, batchObs>>
snapVars  == <<file, fresh, rt>>
concVars  == <<mu, pc, call, reg, contended>>
agentVars == <<rateLimit, metrics, ctxDone, mainPc, loopPc, waiterPc, pollTick, reqTick,
               pollPc, pollReg, repPc, copy, sem, wg, errChClosed>>
sendVars  == <<sendPc, sendI, outcomes, waits, sendErr>>
serverVars == <<srvPc, cfgAddrDB, dbOpen, componentsDbConn, saverPc, saverTick, nSaves, stopCh, done, stopWaited, steps, drainErr, saveErr, exitErr>>
restoreVars == <<rpc, rfile, rstore, rerr>>
wireVars == <<wpc, wbatch, wkey, wkeypair, wdata, wbuffer, hashString, wreq, wbody, wstatus, wsteps>>
httpVars == <<hpc, hdb, hreq, hdown, hpre, hbody, hinvoked, hstorageErr, hstatus, hpanic, hcount, htext>>
cryptoVars == <<cpc, cplain, ckeypair, cblob, ctamper, cresult>>
batchVars == <<bpc, bmem, bbatch, bidx, bpre, bobsAll, bobsGet, bcalls>>
valueLessVars == <<vpc, vmem, vdb, vpre, vbatch, vpanic, vwrites>>
persistVars == <<ppc, pdb, pfile, pbefore, prestarts>>
pollCountVars == <<qmetrics, qpollPc, qpollReg, qreports, qserver>>
classifyVars == <<kpc, km, kRateLimit, kpending, kinputClosed, kworker, kheld, kmetricsList, kwg, kerrChClosed, kposts, kbody>>
poolVars == <<omu, oitems, oobj, onext, ocpc, oheld, ofromPool, owasTop, ostamp, oclock>>
vars      == <<storeVars, snapVars, concVars, agentVars, sendVars, serverVars, restoreVars, wireVars, httpVars, cryptoVars, batchVars, valueLessVars, persistVars, pollCountVars, classifyVars, poolVars>>

(***************************************************************************)
(* Bounds of the model.                                                    *)
(***************************************************************************)
MaxDelta == 1      \* counter deltas are 0..MaxDelta
MaxTotal == 2      \* a counter is not driven beyond this total
MaxBatch == 2      \* records per batch
NumReq   == 2      \* request goroutines running at once
MaxCollects == 3   \* CollectMetrics goroutines started
MaxSends == 3      \* SendAllMetricsBatch calls started
MaxRate  == 2      \* cfg.RateLimit is 0..MaxRate
MaxPolls == 2      \* poll ticks taken by the scheduling loop
MaxReports == 3    \* report ticks taken by the scheduling loop
MaxSaves == 2      \* periodic saves of the PeriodicSaver
MaxFileRecs == 2   \* records in a snapshot file found at startup
FairPolls == 1     \* poll ticks in the liveness specification
FairReports == 2   \* report ticks in the liveness specification

Names     == {"a", "b"}
\* float64 values, named by their text
GaugeVals == {"0", "1.5"}
Deltas    == 0..MaxDelta

(***************************************************************************)
(* models.Metrics: Delta and Value are pointers, nil when not set.         *)
(***************************************************************************)
NilDelta == [set |-> FALSE, v |-> 0]
NilValue == [set |-> FALSE, v |-> "0"]
PtrDelta(d) == [set |-> TRUE, v |-> d]
PtrValue(v) == [set |-> TRUE, v |-> v]

GaugeRec(id, v)   == [ID |-> id, MType |-> "gauge",   Delta |-> NilDelta,    Value |-> PtrValue(v)]
CounterRec(id, d) == [ID |-> id, MType |-> "counter", Delta |-> PtrDelta(d), Value |-> NilValue]

Put(f, k, v) == [x \in (DOMAIN f) \cup {k} |-> IF x = k THEN v ELSE f[x]]
EmptyMap == [x \in {} |-> 0]

\* results of the getters: (value, error)
ErrNil      == "nil"
ErrNotFound == "metric not found"
ErrScan     == "sql: Scan error: converting NULL is unsupported"

(***************************************************************************)
(* MemStorage                                                              *)
(***************************************************************************)
NewMemStorage == [Gauges |-> EmptyMap, Counters |-> EmptyMap]

MemSetGaugeKeepFirst(m, name, value) ==
    IF name \in DOMAIN m.Gauges THEN m
    ELSE [m EXCEPT !.Gauges = Put(m.Gauges, name, value)]

MemSetGauge(m, name, value) ==
    [m EXCEPT !.Gauges = Put(m.Gauges, name, value)]

MemGetGaugeSilentZero(m, name) ==
    IF name \in DOMAIN m.Gauges
    THEN [val |-> m.Gauges[name], err |-> ErrNil]
    ELSE [val |-> "0", err |-> ErrNil]

MemGetGauge(m, name) ==
    IF name \in DOMAIN m.Gauges
    THEN [val |-> m.Gauges[name], err |-> ErrNil]
    ELSE [val |-> "0", err |-> ErrNotFound]

MemSetCounterOverwrite(m, name, value) ==
    [m EXCEPT !.Counters = Put(m.Counters, name, value)]

\* m.Counters[name] += value: a missing key reads as 0
MemSetCounter(m, name, value) ==
    [m EXCEPT !.Counters =
        Put(m.Counters, name,
            (IF name \in DOMAIN m.Counters THEN m.Counters[name] ELSE 0) + value)]

MemGetCounter(m, name) ==
    IF name \in DOMAIN m.Counters
    THEN [val |-> m.Counters[name], err |-> ErrNil]
    ELSE [val |-> 0, err |-> ErrNotFound]

\* The loop of InsertMetricsBatch: *metric.Value / *metric.Delta is
\* dereferenced before the setter is called, so a nil pointer panics there and
\* the records before it stay applied.
RECURSIVE MemBatchLoop(_, _)
MemBatchLoop(m, list) ==
    IF list = <<>> THEN [st |-> m, panic |-> FALSE]
    ELSE LET metric == Head(list) IN
         CASE metric.MType = "gauge" ->
                IF metric.Value.set
                THEN MemBatchLoop(MemSetGauge(m, metric.ID, metric.Value.v), Tail(list))
                ELSE [st |-> m, panic |-> TRUE]
           [] metric.MType = "counter" ->
                IF metric.Delta.set
                THEN MemBatchLoop(MemSetCounter(m, metric.ID, metric.Delta.v), Tail(list))
                ELSE [st |-> m, panic |-> TRUE]
           [] OTHER -> MemBatchLoop(m, Tail(list))

MemInsertMetricsBatch(m, list) == MemBatchLoop(m, list)

(***************************************************************************)
(* DBStorage: table metrics (name TEXT PRIMARY KEY, type TEXT,             *)
(* value DOUBLE PRECISION, delta BIGINT); a column is NULL or holds a      *)
(* value.                                                                  *)
(***************************************************************************)
NullF == [valid |-> FALSE, v |-> "0"]
NullI == [valid |-> FALSE, v |-> 0]
SomeF(x) == [valid |-> TRUE, v |-> x]
SomeI(x) == [valid |-> TRUE, v |-> x]

\* SQL: NULL + x is NULL
SqlAdd(x, y) == IF x.valid /\ y.valid THEN SomeI(x.v + y.v) ELSE NullI

NewDBStorage == EmptyMap

\* INSERT (name, value, type) ... ON CONFLICT (name) DO UPDATE SET value = EXCLUDED.value
DBSetGauge(d, name, value) ==
    IF name \in DOMAIN d
    THEN [d EXCEPT ![name].value = SomeF(value)]
    ELSE Put(d, name, [type |-> "gauge", value |-> SomeF(value), delta |-> NullI])

\* SELECT value FROM metrics WHERE name=$1, scanned into a float64
DBGetGauge(d, name) ==
    IF name \notin DOMAIN d THEN [val |-> "0", err |-> ErrNotFound]
    ELSE IF ~d[name].value.valid THEN [val |-> "0", err |-> ErrScan]
    ELSE [val |-> d[name].value.v, err |-> ErrNil]

DBSetCounterOverwrite(d, name, value) ==
    IF name \in DOMAIN d
    THEN [d EXCEPT ![name].delta = SomeI(value)]
    ELSE Put(d, name, [type |-> "counter", value |-> NullF, delta |-> SomeI(value)])

\* INSERT (name, delta, type) ... ON CONFLICT (name) DO UPDATE
\*   SET delta = metrics.delta + EXCLUDED.delta
DBSetCounter(d, name, value) ==
    IF name \in DOMAIN d
    THEN [d EXCEPT ![name].delta = SqlAdd(d[name].delta, SomeI(value))]
    ELSE Put(d, name, [type |-> "counter", value |-> NullF, delta |-> SomeI(value)])

\* SELECT delta FROM metrics WHERE name=$1, scanned into an int64
DBGetCounter(d, name) ==
    IF name \notin DOMAIN d THEN [val |-> 0, err |-> ErrNotFound]
    ELSE IF ~d[name].delta.valid THEN [val |-> 0, err |-> ErrScan]
    ELSE [val |-> d[name].delta.v, err |-> ErrNil]

\* batchItem{MType, Value, Delta}, the zero value
ZeroItem == [MType |-> "", Value |-> NilValue, Delta |-> NilDelta]

MergeItemLastDelta(b, metric) ==
    CASE metric.MType = "gauge" ->
           IF metric.Value.set
           THEN [b EXCEPT !.MType = "gauge", !.Value = metric.Value]
           ELSE b
      [] metric.MType = "counter" ->
           IF metric.Delta.set
           THEN [b EXCEPT !.MType = "counter", !.Delta = metric.Delta]
           ELSE b
      [] OTHER -> b

\* the switch on metric.MType inside the merge loop
MergeItem(b, metric) ==
    CASE metric.MType = "gauge" ->
           IF metric.Value.set
           THEN [b EXCEPT !.MType = "gauge", !.Value = metric.Value]
           ELSE b
      [] metric.MType = "counter" ->
           IF metric.Delta.set
           THEN [b EXCEPT !.MType = "counter",
                          !.Delta = PtrDelta((IF b.Delta.set THEN b.Delta.v ELSE 0)
                                             + metric.Delta.v)]
           ELSE b
      [] OTHER -> b

\* tmp := map[string]batchItem, filled in batch order
RECURSIVE MergeBatch(_, _)
MergeBatch(tmp, list) ==
    IF list = <<>> THEN tmp
    ELSE LET metric == Head(list) IN
         IF metric.ID = "" \/ metric.MType = ""
         THEN MergeBatch(tmp, Tail(list))
         ELSE LET b == IF metric.ID \in DOMAIN tmp THEN tmp[metric.ID] ELSE ZeroItem
              IN  MergeBatch(Put(tmp, metric.ID, MergeItem(b, metric)), Tail(list))

\* the upsert overwrites a counter's delta instead of adding to it
UpsertRowOverwriteDelta(d, id, b) ==
    LET val   == IF b.MType = "gauge"   THEN SomeF(b.Value.v) ELSE NullF
        delta == IF b.MType = "counter" THEN SomeI(b.Delta.v) ELSE NullI
    IN  IF id \in DOMAIN d
        THEN [type  |-> b.MType,
              delta |-> delta,
              value |-> IF b.MType = "gauge" THEN val ELSE d[id].value]
        ELSE [type |-> b.MType, delta |-> delta, value |-> val]

\* one row of the multi-row INSERT ... ON CONFLICT (name) DO UPDATE SET
\*   type = EXCLUDED.type,
\*   delta = CASE WHEN EXCLUDED.type = 'counter' THEN metrics.delta + EXCLUDED.delta
\*                ELSE EXCLUDED.delta END,
\*   value = CASE WHEN EXCLUDED.type = 'gauge' THEN EXCLUDED.value
\*                ELSE metrics.value END
UpsertRow(d, id, b) ==
    LET val   == IF b.MType = "gauge"   THEN SomeF(b.Value.v) ELSE NullF
        delta == IF b.MType = "counter" THEN SomeI(b.Delta.v) ELSE NullI
    IN  IF id \in DOMAIN d
        THEN [type  |-> b.MType,
              delta |-> IF b.MType = "counter" THEN SqlAdd(d[id].delta, delta) ELSE delta,
              value |-> IF b.MType = "gauge" THEN val ELSE d[id].value]
        ELSE [type |-> b.MType, delta |-> delta, value |-> val]

DBInsertMetricsBatch(d, list) ==
    IF Len(list) = 0 THEN d
    ELSE LET tmp == MergeBatch(EmptyMap, list) IN
         IF DOMAIN tmp = {} THEN d
         ELSE [id \in (DOMAIN d) \cup (DOMAIN tmp) |->
                 IF id \in DOMAIN tmp THEN UpsertRow(d, id, tmp[id]) ELSE d[id]]

(***************************************************************************)
(* MemStorage.GetAll: the counters, then the gauges, each map ranged over  *)
(* in an order the runtime picks.  The result is nil when both maps are    *)
(* empty.                                                                  *)
(***************************************************************************)
Orderings(S) == {q \in [1..Cardinality(S) -> S] : \A i, j \in DOMAIN q : q[i] = q[j] => i = j}

MemGetAll(m) ==
    {[i \in 1..Len(cs) |-> CounterRec(cs[i], m.Counters[cs[i]])]
        \o [i \in 1..Len(gs) |-> GaugeRec(gs[i], m.Gauges[gs[i]])] :
            cs \in Orderings(DOMAIN m.Counters), gs \in Orderings(DOMAIN m.Gauges)}

\* DBStorage.GetAll: SELECT name, type, value, delta FROM metrics, the rows
\* in an order the database picks; Value is set for a gauge row with a
\* value, Delta for a counter row with a delta
DBRow(d, name) ==
    [ID |-> name, MType |-> d[name].type,
     Delta |-> IF d[name].type = "counter" /\ d[name].delta.valid
               THEN PtrDelta(d[name].delta.v) ELSE NilDelta,
     Value |-> IF d[name].type = "gauge" /\ d[name].value.valid
               THEN PtrValue(d[name].value.v) ELSE NilValue]
DBGetAll(d) ==
    {[i \in 1..Len(q) |-> DBRow(d, q[i])] : q \in Orderings(DOMAIN d)}

(***************************************************************************)
(* The snapshot file.  serializeMetrics is json.MarshalIndent of the list: *)
(* a nil slice gives null; each record gives an object with id, type and,  *)
(* for a non-nil pointer, delta / value (omitempty drops nil only, not 0); *)
(* a float that is not finite makes Marshal fail.  Numbers are written as  *)
(* text and parsed back by deserializeMetrics.                             *)
(***************************************************************************)
NoFile == [exists |-> FALSE, null |-> FALSE, arr |-> <<>>]
Absent == [present |-> FALSE, text |-> ""]
Token(t) == [present |-> TRUE, text |-> t]

IsFinite(v) == v \notin {"+Inf", "-Inf", "NaN"}
FormatInt(d) == ToString(d)
ParseInt(t) == CHOOSE d \in 0..(MaxTotal + MaxDelta) : ToString(d) = t
FormatFloat(v) == v
ParseFloat(t) == t

MarshalMetric(metric) ==
    [id    |-> metric.ID,
     type  |-> metric.MType,
     delta |-> IF metric.Delta.set THEN Token(FormatInt(metric.Delta.v)) ELSE Absent,
     value |-> IF metric.Value.set THEN Token(FormatFloat(metric.Value.v)) ELSE Absent]

UnmarshalMetric(obj) ==
    [ID    |-> obj.id,
     MType |-> obj.type,
     Delta |-> IF obj.delta.present THEN PtrDelta(ParseInt(obj.delta.text)) ELSE NilDelta,
     Value |-> IF obj.value.present THEN PtrValue(ParseFloat(obj.value.text)) ELSE NilValue]

serializeMetrics(list) ==
    IF \E i \in 1..Len(list) : list[i].Value.set /\ ~IsFinite(list[i].Value.v)
    THEN [err |-> TRUE, null |-> FALSE, arr |-> <<>>]
    ELSE [err |-> FALSE, null |-> (Len(list) = 0),
          arr |-> [i \in 1..Len(list) |-> MarshalMetric(list[i])]]

deserializeMetrics(data) ==
    IF data.null THEN <<>> ELSE [i \in 1..Len(data.arr) |-> UnmarshalMetric(data.arr[i])]

\* saveToFile: GetAll, serialize, write; an error leaves the file as it was
saveToFile(list, f) ==
    LET r == serializeMetrics(list) IN
    IF r.err THEN [err |-> TRUE, file |-> f]
    ELSE [err |-> FALSE, file |-> [exists |-> TRUE, null |-> r.null, arr |-> r.arr]]

RECURSIVE LoadLoopAbortOnUnknown(_, _)
LoadLoopAbortOnUnknown(m, list) ==
    IF list = <<>> THEN m
    ELSE LET r == Head(list) IN
         CASE r.MType = "gauge" ->
                LoadLoopAbortOnUnknown(IF r.Value.set THEN MemSetGauge(m, r.ID, r.Value.v) ELSE m,
                                       Tail(list))
           [] r.MType = "counter" ->
                LoadLoopAbortOnUnknown(IF r.Delta.set THEN MemSetCounter(m, r.ID, r.Delta.v) ELSE m,
                                       Tail(list))
           [] OTHER -> m

\* the loop of loadFromFile over the records read
RECURSIVE LoadLoop(_, _)
LoadLoop(m, list) ==
    IF list = <<>> THEN m
    ELSE LET r == Head(list) IN
         CASE r.MType = "gauge" ->
                LoadLoop(IF r.Value.set THEN MemSetGauge(m, r.ID, r.Value.v) ELSE m,
                         Tail(list))
           [] r.MType = "counter" ->
                LoadLoop(IF r.Delta.set THEN MemSetCounter(m, r.ID, r.Delta.v) ELSE m,
                         Tail(list))
           [] OTHER -> LoadLoop(m, Tail(list))

\* readFile gives no data for a missing file; no data loads nothing
loadFromFile(m, f) ==
    IF ~f.exists THEN m
    ELSE LoadLoop(m, deserializeMetrics(f))

\* the (name, kind, value) triples of a GetAll result
Triples(list) ==
    {<<list[i].ID, list[i].MType, list[i].Delta, list[i].Value>> : i \in 1..Len(list)}
GetAllTriples(m) == UNION {{Triples(list)} : list \in MemGetAll(m)}

NoRestart == [op |-> "none", same |-> TRUE, n |-> 0]

(***************************************************************************)
(* Inputs of the storage calls.                                            *)
(***************************************************************************)
Records == {GaugeRec(n, v) : n \in Names, v \in GaugeVals}
           \cup {CounterRec(n, d) : n \in Names, d \in Deltas}
Batches == UNION {[1..k -> Records] : k \in 0..MaxBatch}

RECURSIVE BatchDelta(_, _)
BatchDelta(list, n) ==
    IF list = <<>> THEN 0
    ELSE (IF Head(list).ID = n /\ Head(list).MType = "counter" /\ Head(list).Delta.set
          THEN Head(list).Delta.v ELSE 0) + BatchDelta(Tail(list), n)

RECURSIVE BatchLastGauge(_, _, _)
BatchLastGauge(list, n, before) ==
    IF list = <<>> THEN before
    ELSE BatchLastGauge(Tail(list), n,
            IF Head(list).ID = n /\ Head(list).MType = "gauge" /\ Head(list).Value.set
            THEN Head(list).Value.v ELSE before)

BatchIds(list) == {list[i].ID : i \in 1..Len(list)}
BatchKinds(list, n) == {list[i].MType : i \in {j \in 1..Len(list) : list[j].ID = n}}
KindsWritten(n) == (IF lastG[n] # "none" THEN {"gauge"} ELSE {})
                   \cup (IF n \in wroteC THEN {"counter"} ELSE {})

\* no id of the batch is used with both kinds, in the batch or in the store
SingleKind(list) ==
    \A n \in BatchIds(list) : Cardinality(BatchKinds(list, n) \cup KindsWritten(n)) <= 1
HasDup(list) == \E i, j \in 1..Len(list) : i < j /\ list[i].ID = list[j].ID

\* the records applied one by one, in batch order, with SetGauge / SetCounter
RECURSIVE MemApplySeq(_, _)
MemApplySeq(m, list) ==
    IF list = <<>> THEN m
    ELSE MemApplySeq(IF Head(list).MType = "gauge"
                     THEN MemSetGauge(m, Head(list).ID, Head(list).Value.v)
                     ELSE MemSetCounter(m, Head(list).ID, Head(list).Delta.v),
                     Tail(list))
RECURSIVE DBApplySeq(_, _)
DBApplySeq(d, list) ==
    IF list = <<>> THEN d
    ELSE DBApplySeq(IF Head(list).MType = "gauge"
                    THEN DBSetGauge(d, Head(list).ID, Head(list).Value.v)
                    ELSE DBSetCounter(d, Head(list).ID, Head(list).Delta.v),
                    Tail(list))

NoObs == [op |-> "none", memSeq |-> TRUE, dbSeq |-> TRUE, single |-> TRUE, dups |-> FALSE]

(***************************************************************************)
(* Init: the state after construction (NewMemStorage, an empty table, no   *)
(* snapshot file).                                                         *)
(***************************************************************************)
InitStore ==
    /\ mem = NewMemStorage
    /\ db = NewDBStorage
    /\ lastG = [n \in Names |-> "none"]
    /\ csum = [n \in Names |-> 0]
    /\ wroteC = {}
    /\ gByBatch = {}
    /\ batchObs = NoObs

InitSnap ==
    /\ file = NoFile
    /\ fresh = FALSE
    /\ rt = NoRestart

NoCall == [op |-> "none", name |-> "", d |-> 0, v |-> "0"]
Reqs == 1..NumReq

InitConc ==
    /\ mu = 0
    /\ pc = [g \in Reqs |-> "idle"]
    /\ call = [g \in Reqs |-> NoCall]
    /\ reg = [g \in Reqs |-> 0]
    /\ contended = FALSE

Polls   == 1..MaxPolls
Reports == 1..MaxReports
\* store.NewMetricsStorage(): every field zero
\* the fields of store.Metrics, scaled down: Alloc and RandomValue stand for
\* the 28 gauges ValuesGauge lists, TotalMemory for the three gauge fields it
\* does not list (TotalMemory, FreeMemory, CPUutilization1)
MetricsFields == {"Alloc", "RandomValue", "TotalMemory", "PollCount"}
ValuesGauge(m) == [n \in {"Alloc", "RandomValue"} |-> m[n]]
ValuesCounter(m) == [n \in {"PollCount"} |-> m[n]]
ValuesAllTyped(m) ==
    [n \in DOMAIN ValuesGauge(m) \cup DOMAIN ValuesCounter(m) |->
        IF n \in DOMAIN ValuesGauge(m)
        THEN [Type |-> "gauge", String |-> FormatFloat(ValuesGauge(m)[n])]
        ELSE [Type |-> "counter", String |-> FormatInt(ValuesCounter(m)[n])]]
\* the kind of a field of store.Metrics (Gauge or Counter)
FieldType(f) == IF f = "PollCount" THEN "counter" ELSE "gauge"
NoRecord == [ID |-> "", MType |-> "", Delta |-> NilDelta, Value |-> NilValue]

\* the pool, its callers and the objects of the factory
MaxObjects == 3    \* objects the factory makes
MaxPuts == 4       \* Put calls completed
NumCallers == 2    \* goroutines calling Get and Put
Callers == 1..NumCallers
\* &models.Metrics{}
ZeroMetrics == [ID |-> "", MType |-> "", Delta |-> NilDelta, Value |-> NilValue, Hash |-> ""]
\* what a caller writes into an object it holds
UsedMetrics == {[ID |-> "a", MType |-> "counter", Delta |-> PtrDelta(1), Value |-> NilValue, Hash |-> "abc123"],
                [ID |-> "b", MType |-> "gauge", Delta |-> NilDelta, Value |-> PtrValue("1.5"), Hash |-> ""]}
\* (*models.Metrics).Reset: every field is set to its zero value
Reset(v) == ZeroMetrics

NewMetricsStorage == [Alloc |-> 0, RandomValue |-> 0, PollCount |-> 0]

InitAgent ==
    /\ rateLimit = 0
    /\ metrics = NewMetricsStorage
    /\ ctxDone = FALSE
    /\ mainPc = "config"
    /\ loopPc = "none"
    /\ waiterPc = "none"
    /\ pollTick = FALSE
    /\ reqTick = FALSE
    /\ pollPc = [p \in Polls |-> "none"]
    /\ pollReg = [p \in Polls |-> 0]
    /\ repPc = [r \in Reports |-> "none"]
    /\ copy = [r \in Reports |-> NewMetricsStorage]
    /\ sem = 0
    /\ wg = 0
    /\ errChClosed = FALSE

InitSend ==
    /\ sendPc = "Do"
    /\ sendI = 0
    /\ outcomes = <<>>
    /\ waits = <<>>
    /\ sendErr = "none"

InitServer ==
    /\ srvPc = "setup"
    /\ cfgAddrDB = FALSE
    /\ dbOpen = FALSE
    /\ componentsDbConn = FALSE
    /\ saverPc = "none"
    /\ saverTick = FALSE
    /\ nSaves = 0
    /\ stopCh = FALSE
    /\ done = FALSE
    /\ stopWaited = FALSE
    /\ steps = <<>>
    /\ drainErr = FALSE
    /\ saveErr = FALSE
    /\ exitErr = "none"

InitRestore ==
    /\ rpc = "init"
    /\ rfile = [kind |-> "missing", null |-> FALSE, arr |-> <<>>]
    /\ rstore = NewMemStorage
    /\ rerr = "none"

(***************************************************************************)
(* Byte strings on the wire, as terms: what was encoded, and how.  Every   *)
(* encoding is injective and the encodings have disjoint ranges, as JSON   *)
(* text, a gzip stream, a hex HMAC and an RSA/AES-GCM blob have.           *)
(***************************************************************************)
NoBytes == [f |-> "none", key |-> "", of |-> <<>>]
\* json.Marshal(metrics)
Marshal(batch) == [f |-> "json", key |-> "", of |-> batch]
\* CompressData(data): a gzip stream of data
CompressData(data) == [f |-> "gzip", key |-> "", of |-> data]
\* calculateSHA256Hash(data, key): the hex HMAC-SHA256 of data under key
calculateSHA256Hash(data, key) == [f |-> "hmac", key |-> key, of |-> data]
\* cryptoutil.EncryptDataHybrid(publicKey, data), for the one keypair of the model
EncryptDataHybrid(data) == [f |-> "enc", key |-> "", of |-> data]
\* cryptoutil.DecryptDataHybrid(privateKey, data): (plaintext, ok)
DecryptDataHybrid(data) ==
    IF data.f = "enc" THEN [ok |-> TRUE, out |-> data.of]
    ELSE [ok |-> FALSE, out |-> NoBytes]
\* a gzip stream whose header is well-formed and whose compressed data or
\* trailer is corrupt
CorruptGzip(data) == [f |-> "gzip-corrupt", key |-> "", of |-> data]
\* bytes that are neither JSON text nor the start of a gzip stream
Garbage == [f |-> "garbage", key |-> "", of |-> <<>>]
\* gzip.NewReader(r.Body): the gzip header is read and checked
GzipHeaderOK(data) == data.f \in {"gzip", "gzip-corrupt"}
\* gzip.NewReader + io.ReadAll: (inflated bytes, ok)
Inflate(data) ==
    IF data.f = "gzip" THEN [ok |-> TRUE, out |-> data.of]
    ELSE [ok |-> FALSE, out |-> NoBytes]

StatusOK == 200
StatusBadRequest == 400
StatusNotFound == 404
StatusInternalServerError == 500

\* DecompressMiddleware, up to the call of the wrapped handler: the status it
\* answers (0 when it calls the handler) and the body it leaves in r.Body
Decompress(contentEncoding, body) ==
    IF contentEncoding = "gzip"
    THEN IF ~GzipHeaderOK(body) THEN [status |-> StatusBadRequest, body |-> body]
         ELSE IF ~Inflate(body).ok THEN [status |-> StatusInternalServerError, body |-> body]
         ELSE [status |-> 0, body |-> Inflate(body).out]
    ELSE [status |-> 0, body |-> body]

NoRequest == [Body |-> NoBytes, ContentEncoding |-> "", HashSHA256 |-> NoBytes]
WireKeys == {"", "k"}

InitWire ==
    /\ wpc = "idle"
    /\ wbatch = <<>>
    /\ wkey = ""
    /\ wkeypair = FALSE
    /\ wdata = NoBytes
    /\ wbuffer = NoBytes
    /\ hashString = NoBytes
    /\ wreq = NoRequest
    /\ wbody = NoBytes
    /\ wstatus = 0
    /\ wsteps = <<>>

NoHttpRequest == [route |-> "", ContentEncoding |-> "", Body |-> NoBytes,
                  typeMetric |-> "", metric |-> "", value |-> ""]

InitHttp ==
    /\ hpc = "idle"
    /\ hdb = NewDBStorage
    /\ hreq = NoHttpRequest
    /\ hdown = FALSE
    /\ hpre = NewDBStorage
    /\ hbody = NoBytes
    /\ hinvoked = FALSE
    /\ hstorageErr = "none"
    /\ hstatus = 0
    /\ hpanic = FALSE
    /\ hcount = 0
    /\ htext = ""

InitCrypto ==
    /\ cpc = "idle"
    /\ cplain = <<>>
    /\ ckeypair = 1
    /\ cblob = <<>>
    /\ ctamper = "none"
    /\ cresult = [ok |-> FALSE, out |-> <<>>]

NoGetAll == [taken |-> FALSE, recs |-> {}]
NoGet == [taken |-> FALSE, kind |-> "", name |-> "", gauge |-> [val |-> "0", err |-> ErrNil],
          counter |-> [val |-> 0, err |-> ErrNil]]

InitBatch ==
    /\ bpc = "idle"
    /\ bmem = NewMemStorage
    /\ bbatch = <<>>
    /\ bidx = 0
    /\ bpre = NewMemStorage
    /\ bobsAll = NoGetAll
    /\ bobsGet = NoGet
    /\ bcalls = 0

InitValueLess ==
    /\ vpc = "writes"
    /\ vmem = NewMemStorage
    /\ vdb = NewDBStorage
    /\ vpre = [mem |-> NewMemStorage, db |-> NewDBStorage]
    /\ vbatch = <<>>
    /\ vpanic = FALSE
    /\ vwrites = 0

InitPersist ==
    /\ ppc = "running"
    /\ pdb = NewDBStorage
    /\ pfile = NoFile
    /\ pbefore = NewDBStorage
    /\ prestarts = 0

InitPollCount ==
    /\ qmetrics = [PollCount |-> 0]
    /\ qpollPc = [p \in 1..MaxCollects |-> "idle"]
    /\ qpollReg = [p \in 1..MaxCollects |-> 0]
    /\ qreports = <<>>
    /\ qserver = NewMemStorage

InitClassify ==
    /\ kpc = "call"
    /\ km = [f \in MetricsFields |-> IF f = "PollCount" THEN 0 ELSE "0"]
    /\ kRateLimit = 1
    /\ kpending = {}
    /\ kinputClosed = FALSE
    /\ kworker = [w \in 1..MaxRate |-> "off"]
    /\ kheld = [w \in 1..MaxRate |-> NoRecord]
    /\ kmetricsList = <<>>
    /\ kwg = 0
    /\ kerrChClosed = FALSE
    /\ kposts = 0
    /\ kbody = <<>>

\* New(factory): no items
InitPool ==
    /\ omu = 0
    /\ oitems = <<>>
    /\ oobj = [o \in 1..MaxObjects |-> ZeroMetrics]
    /\ onext = 0
    /\ ocpc = [c \in Callers |-> "idle"]
    /\ oheld = [c \in Callers |-> 0]
    /\ ofromPool = [c \in Callers |-> FALSE]
    /\ owasTop = [c \in Callers |-> FALSE]
    /\ ostamp = [o \in 1..MaxObjects |-> 0]
    /\ oclock = 0

Init == InitStore /\ InitSnap /\ InitConc /\ InitAgent /\ InitSend /\ InitServer /\ InitRestore /\ InitWire /\ InitHttp /\ InitCrypto /\ InitBatch /\ InitValueLess /\ InitPersist /\ InitPollCount /\ InitClassify /\ InitPool

(***************************************************************************)
(* SpecStore: both backends receive the same calls.                        *)
(***************************************************************************)
SetGauge(n, v) ==
    /\ mem' = MemSetGauge(mem, n, v)
    /\ db' = DBSetGauge(db, n, v)
    /\ lastG' = [lastG EXCEPT ![n] = v]
    /\ gByBatch' = gByBatch \ {n}
    /\ batchObs' = NoObs
    /\ UNCHANGED <<csum, wroteC>>

SetCounter(n, d) ==
    /\ csum[n] + d <= MaxTotal
    /\ mem' = MemSetCounter(mem, n, d)
    /\ db' = DBSetCounter(db, n, d)
    /\ csum' = [csum EXCEPT ![n] = @ + d]
    /\ wroteC' = wroteC \cup {n}
    /\ batchObs' = NoObs
    /\ UNCHANGED <<lastG, gByBatch>>

InsertMetricsBatch(b) ==
    /\ \A n \in Names : csum[n] + BatchDelta(b, n) <= MaxTotal
    /\ mem' = MemInsertMetricsBatch(mem, b).st
    /\ db' = DBInsertMetricsBatch(db, b)
    /\ lastG' = [n \in Names |-> BatchLastGauge(b, n, lastG[n])]
    /\ csum' = [n \in Names |-> csum[n] + BatchDelta(b, n)]
    /\ wroteC' = wroteC \cup {n \in Names : "counter" \in BatchKinds(b, n)}
    /\ gByBatch' = gByBatch \cup {n \in Names : "gauge" \in BatchKinds(b, n)}
    /\ batchObs' = [op |-> "batch",
                    memSeq |-> (MemInsertMetricsBatch(mem, b).st = MemApplySeq(mem, b)),
                    dbSeq  |-> (DBInsertMetricsBatch(db, b) = DBApplySeq(db, b)),
                    single |-> SingleKind(b),
                    dups   |-> HasDup(b)]

storeOther == <<snapVars, concVars, agentVars, sendVars, serverVars, restoreVars, wireVars, httpVars, cryptoVars, batchVars, valueLessVars, persistVars, pollCountVars, classifyVars, poolVars>>

NextStore ==
    \/ \E n \in Names, v \in GaugeVals : SetGauge(n, v) /\ UNCHANGED storeOther
    \/ \E n \in Names, d \in Deltas : SetCounter(n, d) /\ UNCHANGED storeOther
    \/ \E b \in Batches : InsertMetricsBatch(b) /\ UNCHANGED storeOther

SpecStore == Init /\ [][NextStore]_vars

(***************************************************************************)
(* C1  Counter accumulation: while the only writes to a name n are counter *)
(* writes of d1..dk (SetCounter calls, or counter records of a batch),     *)
(* starting from a store that has not seen n, GetCounter(n) returns        *)
(* d1 + ... + dk without error, on both backends; after the first write    *)
(* the total is d1.  Writes to other names are unrestricted.               *)
(***************************************************************************)
OnlySetCounter(n) == n \in wroteC /\ lastG[n] = "none"

C1_CounterAccumulation ==
    \A n \in Names :
        OnlySetCounter(n) =>
            /\ MemGetCounter(mem, n) = [val |-> csum[n], err |-> ErrNil]
            /\ DBGetCounter(db, n) = [val |-> csum[n], err |-> ErrNil]

C1_Witness ==
    /\ OnlySetCounter("a")
    /\ csum["a"] = MaxTotal
    /\ lastG["b"] # "none" /\ "b" \in wroteC /\ batchObs.op = "none"
    /\ MemGetCounter(mem, "a").val = MaxTotal
    /\ DBGetCounter(db, "a").val = MaxTotal

(***************************************************************************)
(* C2  Batch aggregation.  As claimed: every InsertMetricsBatch call       *)
(* leaves each backend in the state that applying its records one by one   *)
(* with SetGauge / SetCounter would.                                       *)
(***************************************************************************)
C2_BatchEqualsSequential_Original ==
    batchObs.op = "batch" => batchObs.memSeq /\ batchObs.dbSeq

(***************************************************************************)
(* C2 as amended: the equality holds on the in-memory backend for every    *)
(* batch, and on the relational backend for every batch none of whose ids  *)
(* is used with both kinds (within the batch or against what the store     *)
(* already holds for that id).                                             *)
(***************************************************************************)
C2_BatchEqualsSequential ==
    batchObs.op = "batch" =>
        /\ batchObs.memSeq
        /\ batchObs.single => batchObs.dbSeq

C2_Witness ==
    /\ batchObs.op = "batch" /\ batchObs.single /\ batchObs.dups
    /\ batchObs.memSeq /\ batchObs.dbSeq
    /\ csum["a"] = MaxTotal /\ "b" \in DOMAIN mem.Gauges

(***************************************************************************)
(* C26  Backend equivalence: after calls in which each name is used with   *)
(* a single kind (every record carrying its value), both backends return   *)
(* the same value from GetGauge and GetCounter and fail in the same cases, *)
(* with the same not-found error for a name never written, and GetAll      *)
(* gives the same set of records.  For a name written with the other kind  *)
(* both getters fail, the in-memory one with not-found and the relational  *)
(* one with a NULL scan error.                                             *)
(***************************************************************************)
EachNameOneKind == \A n \in Names : Cardinality(KindsWritten(n)) <= 1

SameOutcome(x, y) == x.val = y.val /\ (x.err = ErrNil <=> y.err = ErrNil)

C4_GaugeOverwrite ==
    \A n \in Names :
        lastG[n] # "none" =>
            /\ MemGetGauge(mem, n) = [val |-> lastG[n], err |-> ErrNil]
            /\ n \notin gByBatch => DBGetGauge(db, n) = [val |-> lastG[n], err |-> ErrNil]

C4_Witness ==
    /\ lastG["a"] = "1.5" /\ "a" \notin gByBatch
    /\ "a" \in wroteC
    /\ MemGetGauge(mem, "a").val = "1.5"
    /\ DBGetGauge(db, "a").val = "1.5"
    /\ db["a"].type = "counter"

(***************************************************************************)
(* C5  Not-found semantics.  As claimed: on either backend a getter on a   *)
(* name never written with that kind returns the not-found error, and a    *)
(* name once written with a kind is found from then on.                    *)
(***************************************************************************)
NotFoundG(r) == r.err = ErrNotFound /\ r.val = "0"
NotFoundC(r) == r.err = ErrNotFound /\ r.val = 0

SnapGaugeVals == {"0", "+Inf"}

SnapSetGauge(n, v) ==
    /\ mem' = MemSetGauge(mem, n, v)
    /\ fresh' = FALSE
    /\ rt' = NoRestart
    /\ UNCHANGED file

SnapSetCounter(n, d) ==
    /\ (IF n \in DOMAIN mem.Counters THEN mem.Counters[n] ELSE 0) + d <= MaxTotal
    /\ mem' = MemSetCounter(mem, n, d)
    /\ fresh' = FALSE
    /\ rt' = NoRestart
    /\ UNCHANGED file

SaveToFile ==
    /\ \E list \in MemGetAll(mem) : file' = saveToFile(list, file).file
    /\ fresh' = TRUE
    /\ rt' = NoRestart
    /\ UNCHANGED mem

Restart ==
    /\ mem' = loadFromFile(NewMemStorage, file)
    /\ rt' = [op |-> IF fresh THEN "save-restart" ELSE "restart",
              same |-> (GetAllTriples(loadFromFile(NewMemStorage, file)) = GetAllTriples(mem)),
              n |-> Cardinality(DOMAIN mem.Gauges) + Cardinality(DOMAIN mem.Counters)]
    /\ fresh' = FALSE
    /\ UNCHANGED file

snapOther == <<db, lastG, csum, wroteC, gByBatch, batchObs, concVars, agentVars, sendVars, serverVars, restoreVars, wireVars, httpVars, cryptoVars, batchVars, valueLessVars, persistVars, pollCountVars, classifyVars, poolVars>>

NextSnapshot ==
    \/ \E n \in Names, v \in SnapGaugeVals : SnapSetGauge(n, v) /\ UNCHANGED snapOther
    \/ \E n \in Names, d \in Deltas : SnapSetCounter(n, d) /\ UNCHANGED snapOther
    \/ SaveToFile /\ UNCHANGED snapOther
    \/ Restart /\ UNCHANGED snapOther

SpecSnapshot == Init /\ [][NextSnapshot]_vars

(***************************************************************************)
(* C6  Snapshot round-trip, as claimed: whenever the store is saved with   *)
(* saveToFile and that file is loaded into a fresh store, GetAll of the    *)
(* new store gives the same set of (name, kind, value) triples as GetAll   *)
(* of the store that was saved.                                            *)
(***************************************************************************)
C6_SnapshotRoundTrip ==
    rt.op = "save-restart" => rt.same

\* the round trip does hold for the stores whose gauges are all finite
C6_FiniteRoundTripReached ==
    /\ rt.op = "save-restart" /\ rt.same /\ rt.n = 4
    /\ mem.Counters["a"] = 0 /\ mem.Gauges["b"] = "0"

(***************************************************************************)
(* SpecMemConc: request goroutines call MemStorage concurrently.  A call   *)
(* is m.mu.Lock(), the body, and the deferred m.mu.Unlock(); the body of   *)
(* SetCounter, m.Counters[name] += value, is a load and a store.           *)
(***************************************************************************)
Calls ==
    {[op |-> "SetCounter", name |-> n, d |-> d, v |-> "0"] : n \in Names, d \in Deltas}
    \cup {[op |-> "SetGauge", name |-> n, d |-> 0, v |-> v] : n \in Names, v \in GaugeVals}
    \cup {[op |-> o, name |-> n, d |-> 0, v |-> "0"] : o \in {"GetCounter", "GetGauge"}, n \in Names}
    \cup {[op |-> "GetAll", name |-> "", d |-> 0, v |-> "0"]}

\* a request goroutine enters a storage method
ReqCall(g, c) ==
    /\ pc[g] = "idle"
    /\ c.op = "SetCounter" => csum[c.name] + c.d <= MaxTotal
    /\ pc' = [pc EXCEPT ![g] = "Lock"]
    /\ call' = [call EXCEPT ![g] = c]
    /\ csum' = IF c.op = "SetCounter" THEN [csum EXCEPT ![c.name] = @ + c.d] ELSE csum
    /\ wroteC' = IF c.op = "SetCounter" THEN wroteC \cup {c.name} ELSE wroteC
    /\ contended' = (contended \/ mu # 0)
    /\ UNCHANGED <<mem, mu, reg>>

ReqLockNoMutex(g) ==
    /\ pc[g] = "Lock"
    /\ mu' = g
    /\ pc' = [pc EXCEPT ![g] = IF call[g].op = "SetGauge" THEN "Store" ELSE "Load"]
    /\ UNCHANGED <<mem, csum, wroteC, call, reg, contended>>

\* m.mu.Lock(): blocks while another goroutine holds the mutex
ReqLock(g) ==
    /\ pc[g] = "Lock"
    /\ mu = 0
    /\ mu' = g
    /\ pc' = [pc EXCEPT ![g] = IF call[g].op = "SetGauge" THEN "Store" ELSE "Load"]
    /\ UNCHANGED <<mem, csum, wroteC, call, reg, contended>>

\* the read of the map: the old total for SetCounter, the result for a getter
ReqLoad(g) ==
    /\ pc[g] = "Load"
    /\ reg' = [reg EXCEPT ![g] =
                 IF call[g].op \in {"SetCounter", "GetCounter"}
                 THEN (IF call[g].name \in DOMAIN mem.Counters
                       THEN mem.Counters[call[g].name] ELSE 0)
                 ELSE 0]
    /\ pc' = [pc EXCEPT ![g] = IF call[g].op = "SetCounter" THEN "Store" ELSE "Unlock"]
    /\ UNCHANGED <<mem, csum, wroteC, mu, call, contended>>

\* the write of the map
ReqStore(g) ==
    /\ pc[g] = "Store"
    /\ mem' = IF call[g].op = "SetCounter"
              THEN [mem EXCEPT !.Counters = Put(mem.Counters, call[g].name, reg[g] + call[g].d)]
              ELSE MemSetGauge(mem, call[g].name, call[g].v)
    /\ pc' = [pc EXCEPT ![g] = "Unlock"]
    /\ UNCHANGED <<csum, wroteC, mu, call, reg, contended>>

\* the deferred m.mu.Unlock() and the return
ReqUnlock(g) ==
    /\ pc[g] = "Unlock"
    /\ mu' = 0
    /\ pc' = [pc EXCEPT ![g] = "idle"]
    /\ call' = [call EXCEPT ![g] = NoCall]
    /\ reg' = [reg EXCEPT ![g] = 0]
    /\ UNCHANGED <<mem, csum, wroteC, contended>>

concOther == <<db, lastG, gByBatch, batchObs, snapVars, agentVars, sendVars, serverVars, restoreVars, wireVars, httpVars, cryptoVars, batchVars, valueLessVars, persistVars, pollCountVars, classifyVars, poolVars>>

NextMemConc ==
    \/ \E g \in Reqs, c \in Calls : ReqCall(g, c) /\ UNCHANGED concOther
    \/ \E g \in Reqs : ReqLock(g) /\ UNCHANGED concOther
    \/ \E g \in Reqs : ReqLoad(g) /\ UNCHANGED concOther
    \/ \E g \in Reqs : ReqStore(g) /\ UNCHANGED concOther
    \/ \E g \in Reqs : ReqUnlock(g) /\ UNCHANGED concOther

SpecMemConc == Init /\ [][NextMemConc]_vars

(***************************************************************************)
(* C3  No lost updates: a goroutine is between Lock and Unlock only while  *)
(* it holds the mutex, so at most one is; and whenever every call has      *)
(* returned, each counter's total is the sum of the deltas of all          *)
(* SetCounter calls made on it, whatever the interleaving.                 *)
(***************************************************************************)
InCall(g) == pc[g] \in {"Load", "Store", "Unlock"}

C3_NoLostUpdates ==
    /\ \A g \in Reqs : InCall(g) => mu = g
    /\ (\A g \in Reqs : pc[g] = "idle") =>
          \A n \in Names :
             /\ n \in wroteC <=> n \in DOMAIN mem.Counters
             /\ n \in wroteC => MemGetCounter(mem, n) = [val |-> csum[n], err |-> ErrNil]

C3_Witness ==
    /\ \A g \in Reqs : pc[g] = "idle"
    /\ contended
    /\ csum["a"] = MaxTotal /\ mem.Counters["a"] = MaxTotal
    /\ "b" \in DOMAIN mem.Gauges

(***************************************************************************)
(* SpecAgent: StartAgent.  The scheduling loop selects over ctx.Done(),    *)
(* pollTicker.C and reqTicker.C; a poll tick starts a goroutine running    *)
(* CollectMetrics, a report tick one that takes the semaphore, copies *m   *)
(* and runs SendAllMetricsBatch.  store.Metrics has no lock: CollectMetrics *)
(* assigns its fields one after another and the copy of *m reads them one  *)
(* after another.  Three fields stand for the struct: Alloc (assigned      *)
(* first), PollCount (incremented) and RandomValue (assigned last); a      *)
(* gauge field holds the number of the poll that assigned it.              *)
(***************************************************************************)
Started(pcs) == {i \in DOMAIN pcs : pcs[i] # "none"}

\* config.GetAgentConfig(cfg), make(chan struct{}, cfg.RateLimit), and the start
\* of the scheduling loop goroutine with its two tickers
MainStart(limit) ==
    /\ mainPc = "config"
    /\ rateLimit' = limit
    /\ mainPc' = "quit"
    /\ loopPc' = "select"
    /\ UNCHANGED <<metrics, ctxDone, waiterPc, pollTick, reqTick,
                   pollPc, pollReg, repPc, copy, sem, wg, errChClosed>>

\* time passes: the poll ticker puts a tick on its channel (capacity 1)
PollTickerFires ==
    /\ loopPc = "select"
    /\ ~pollTick
    /\ Cardinality(Started(pollPc)) < MaxPolls
    /\ pollTick' = TRUE
    /\ UNCHANGED <<rateLimit, metrics, ctxDone, mainPc, loopPc, waiterPc, reqTick,
                   pollPc, pollReg, repPc, copy, sem, wg, errChClosed>>

ReqTickerFires ==
    /\ loopPc = "select"
    /\ ~reqTick
    /\ Cardinality(Started(repPc)) < MaxReports
    /\ reqTick' = TRUE
    /\ UNCHANGED <<rateLimit, metrics, ctxDone, mainPc, loopPc, waiterPc, pollTick,
                   pollPc, pollReg, repPc, copy, sem, wg, errChClosed>>

\* case <-pollTicker.C: wg.Add(1); go func() { defer wg.Done(); m.CollectMetrics() }()
LoopPoll ==
    /\ loopPc = "select"
    /\ pollTick
    /\ pollTick' = FALSE
    /\ wg' = wg + 1
    /\ pollPc' = [pollPc EXCEPT ![Cardinality(Started(pollPc)) + 1] = "Alloc"]
    /\ UNCHANGED <<rateLimit, metrics, ctxDone, mainPc, loopPc, waiterPc, reqTick,
                   pollReg, repPc, copy, sem, errChClosed>>

\* case <-reqTicker.C: wg.Add(1); go func() { ... }()
LoopReport ==
    /\ loopPc = "select"
    /\ reqTick
    /\ reqTick' = FALSE
    /\ wg' = wg + 1
    /\ repPc' = [repPc EXCEPT ![Cardinality(Started(repPc)) + 1] = "acquire"]
    /\ UNCHANGED <<rateLimit, metrics, ctxDone, mainPc, loopPc, waiterPc, pollTick,
                   pollPc, pollReg, copy, sem, errChClosed>>

\* case <-ctx.Done(): return (and the deferred ticker Stop calls)
LoopDone ==
    /\ loopPc = "select"
    /\ ctxDone
    /\ loopPc' = "exited"
    /\ UNCHANGED <<rateLimit, metrics, ctxDone, mainPc, waiterPc, pollTick, reqTick,
                   pollPc, pollReg, repPc, copy, sem, wg, errChClosed>>

\* CollectMetrics: m.Alloc = Gauge(stats.Alloc) ... (the first assignments)
PollAlloc(p) ==
    /\ pollPc[p] = "Alloc"
    /\ metrics' = [metrics EXCEPT !.Alloc = p]
    /\ pollPc' = [pollPc EXCEPT ![p] = "CountLoad"]
    /\ UNCHANGED <<rateLimit, ctxDone, mainPc, loopPc, waiterPc, pollTick, reqTick,
                   pollReg, repPc, copy, sem, wg, errChClosed>>

\* m.PollCount++ : the read
PollCountLoad(p) ==
    /\ pollPc[p] = "CountLoad"
    /\ pollReg' = [pollReg EXCEPT ![p] = metrics.PollCount]
    /\ pollPc' = [pollPc EXCEPT ![p] = "CountStore"]
    /\ UNCHANGED <<rateLimit, metrics, ctxDone, mainPc, loopPc, waiterPc, pollTick, reqTick,
                   repPc, copy, sem, wg, errChClosed>>

\* m.PollCount++ : the write
PollCountStore(p) ==
    /\ pollPc[p] = "CountStore"
    /\ metrics' = [metrics EXCEPT !.PollCount = pollReg[p] + 1]
    /\ pollReg' = [pollReg EXCEPT ![p] = 0]
    /\ pollPc' = [pollPc EXCEPT ![p] = "RandomValue"]
    /\ UNCHANGED <<rateLimit, ctxDone, mainPc, loopPc, waiterPc, pollTick, reqTick,
                   repPc, copy, sem, wg, errChClosed>>

\* m.RandomValue = Gauge(rand.Float64()), the return and the deferred wg.Done()
PollRandomValue(p) ==
    /\ pollPc[p] = "RandomValue"
    /\ metrics' = [metrics EXCEPT !.RandomValue = p]
    /\ pollPc' = [pollPc EXCEPT ![p] = "done"]
    /\ wg' = wg - 1
    /\ UNCHANGED <<rateLimit, ctxDone, mainPc, loopPc, waiterPc, pollTick, reqTick,
                   pollReg, repPc, copy, sem, errChClosed>>

RepAcquireNoLimit(r) ==
    /\ repPc[r] = "acquire"
    /\ sem' = sem + 1
    /\ repPc' = [repPc EXCEPT ![r] = "copyAlloc"]
    /\ UNCHANGED <<rateLimit, metrics, ctxDone, mainPc, loopPc, waiterPc, pollTick, reqTick,
                   pollPc, pollReg, copy, wg, errChClosed>>

\* semaphore <- struct{}{} : blocks while the channel holds cfg.RateLimit elements
RepAcquire(r) ==
    /\ repPc[r] = "acquire"
    /\ sem < rateLimit
    /\ sem' = sem + 1
    /\ repPc' = [repPc EXCEPT ![r] = "copyAlloc"]
    /\ UNCHANGED <<rateLimit, metrics, ctxDone, mainPc, loopPc, waiterPc, pollTick, reqTick,
                   pollPc, pollReg, copy, wg, errChClosed>>

\* the argument *m of SendAllMetricsBatch: the struct is copied field by field
RepCopyAlloc(r) ==
    /\ repPc[r] = "copyAlloc"
    /\ copy' = [copy EXCEPT ![r].Alloc = metrics.Alloc]
    /\ repPc' = [repPc EXCEPT ![r] = "copyRandomValue"]
    /\ UNCHANGED <<rateLimit, metrics, ctxDone, mainPc, loopPc, waiterPc, pollTick, reqTick,
                   pollPc, pollReg, sem, wg, errChClosed>>

RepCopyRandomValue(r) ==
    /\ repPc[r] = "copyRandomValue"
    /\ copy' = [copy EXCEPT ![r].RandomValue = metrics.RandomValue]
    /\ repPc' = [repPc EXCEPT ![r] = "copyPollCount"]
    /\ UNCHANGED <<rateLimit, metrics, ctxDone, mainPc, loopPc, waiterPc, pollTick, reqTick,
                   pollPc, pollReg, sem, wg, errChClosed>>

RepCopyPollCount(r) ==
    /\ repPc[r] = "copyPollCount"
    /\ copy' = [copy EXCEPT ![r].PollCount = metrics.PollCount]
    /\ repPc' = [repPc EXCEPT ![r] = "send"]
    /\ UNCHANGED <<rateLimit, metrics, ctxDone, mainPc, loopPc, waiterPc, pollTick, reqTick,
                   pollPc, pollReg, sem, wg, errChClosed>>

RepSendReturnsKeepsSemaphore(r) ==
    /\ repPc[r] = "send"
    /\ wg' = wg - 1
    /\ repPc' = [repPc EXCEPT ![r] = "done"]
    /\ copy' = [copy EXCEPT ![r] = NewMetricsStorage]
    /\ UNCHANGED <<rateLimit, metrics, ctxDone, mainPc, loopPc, waiterPc, pollTick, reqTick,
                   pollPc, pollReg, sem, errChClosed>>

\* SendAllMetricsBatch returns (with or without an error, which is only logged);
\* the deferred <-semaphore and wg.Done() run
RepSendReturns(r) ==
    /\ repPc[r] = "send"
    /\ sem' = sem - 1
    /\ wg' = wg - 1
    /\ repPc' = [repPc EXCEPT ![r] = "done"]
    /\ copy' = [copy EXCEPT ![r] = NewMetricsStorage]
    /\ UNCHANGED <<rateLimit, metrics, ctxDone, mainPc, loopPc, waiterPc, pollTick, reqTick,
                   pollPc, pollReg, errChClosed>>

\* <-quit; cancel()
MainCancel ==
    /\ mainPc = "quit"
    /\ ctxDone' = TRUE
    /\ mainPc' = "cancelled"
    /\ UNCHANGED <<rateLimit, metrics, loopPc, waiterPc, pollTick, reqTick,
                   pollPc, pollReg, repPc, copy, sem, wg, errChClosed>>

\* go func() { wg.Wait(); close(errCh) }(); return errCh
MainReturn ==
    /\ mainPc = "cancelled"
    /\ mainPc' = "returned"
    /\ waiterPc' = "Wait"
    /\ UNCHANGED <<rateLimit, metrics, ctxDone, loopPc, pollTick, reqTick,
                   pollPc, pollReg, repPc, copy, sem, wg, errChClosed>>

\* wg.Wait() returns when the counter is zero; close(errCh)
WaiterClose ==
    /\ waiterPc = "Wait"
    /\ wg = 0
    /\ errChClosed' = TRUE
    /\ waiterPc' = "done"
    /\ UNCHANGED <<rateLimit, metrics, ctxDone, mainPc, loopPc, pollTick, reqTick,
                   pollPc, pollReg, repPc, copy, sem, wg>>

\* cryptoutil.LoadPublicKey fails: StartAgent runs errCh <- err on the
\* unbuffered errCh.  The only receiver is run(), which receives after
\* StartAgent has returned, so the send parks the main goroutine and no
\* step of the program completes it.
MainKeyError ==
    /\ mainPc = "config"
    /\ mainPc' = "sendBlocked"
    /\ UNCHANGED <<rateLimit, metrics, ctxDone, loopPc, waiterPc, pollTick, reqTick,
                   pollPc, pollReg, repPc, copy, sem, wg, errChClosed>>

\* the Go runtime finds every goroutine asleep and aborts the process
\* ("all goroutines are asleep - deadlock!"); run() has not returned
RuntimeDeadlock ==
    /\ mainPc = "sendBlocked"
    /\ mainPc' = "fatal"
    /\ UNCHANGED <<rateLimit, metrics, ctxDone, loopPc, waiterPc, pollTick, reqTick,
                   pollPc, pollReg, repPc, copy, sem, wg, errChClosed>>

agentOther == <<storeVars, snapVars, concVars, sendVars, serverVars, restoreVars, wireVars, httpVars, cryptoVars, batchVars, valueLessVars, persistVars, pollCountVars, classifyVars, poolVars>>

\* the steps of the agent's goroutines
AgentSteps ==
    \/ \E limit \in 0..MaxRate : MainStart(limit) /\ UNCHANGED agentOther
    \/ LoopPoll /\ UNCHANGED agentOther
    \/ LoopReport /\ UNCHANGED agentOther
    \/ LoopDone /\ UNCHANGED agentOther
    \/ \E p \in Polls : PollAlloc(p) /\ UNCHANGED agentOther
    \/ \E p \in Polls : PollCountLoad(p) /\ UNCHANGED agentOther
    \/ \E p \in Polls : PollCountStore(p) /\ UNCHANGED agentOther
    \/ \E p \in Polls : PollRandomValue(p) /\ UNCHANGED agentOther
    \/ \E r \in Reports : RepAcquire(r) /\ UNCHANGED agentOther
    \/ \E r \in Reports : RepCopyAlloc(r) /\ UNCHANGED agentOther
    \/ \E r \in Reports : RepCopyRandomValue(r) /\ UNCHANGED agentOther
    \/ \E r \in Reports : RepCopyPollCount(r) /\ UNCHANGED agentOther
    \/ \E r \in Reports : RepSendReturns(r) /\ UNCHANGED agentOther
    \/ MainCancel /\ UNCHANGED agentOther
    \/ MainReturn /\ UNCHANGED agentOther
    \/ WaiterClose /\ UNCHANGED agentOther
    \/ MainKeyError /\ UNCHANGED agentOther
    \/ RuntimeDeadlock /\ UNCHANGED agentOther

NextAgent ==
    \/ PollTickerFires /\ UNCHANGED agentOther
    \/ ReqTickerFires /\ UNCHANGED agentOther
    \/ AgentSteps

SpecAgent == Init /\ [][NextAgent]_vars

(***************************************************************************)
(* C7  Bounded sender concurrency: the report goroutines that hold the     *)
(* semaphore (from taking it until SendAllMetricsBatch has returned) are   *)
(* never more than cfg.RateLimit, and the semaphore counts exactly them.   *)
(***************************************************************************)
Holding == {r \in Reports : repPc[r] \in {"copyAlloc", "copyRandomValue", "copyPollCount", "send"}}

C7_BoundedSenders ==
    /\ Cardinality(Holding) <= rateLimit
    /\ Cardinality(Holding) = sem

C7_Witness ==
    /\ rateLimit = MaxRate
    /\ Cardinality({r \in Reports : repPc[r] = "send"}) = rateLimit
    /\ \E r \in Reports : repPc[r] = "acquire"

(***************************************************************************)
(* C8  Consistent snapshot copy, as claimed: the copy a report cycle sends *)
(* holds values that all come from the same completed poll refresh (here:  *)
(* Alloc and RandomValue were assigned by the same poll), and no two poll  *)
(* refreshes are inside CollectMetrics at once.                            *)
(***************************************************************************)
Collecting == {p \in Polls : pollPc[p] \in {"CountLoad", "CountStore", "RandomValue"}}

C8_ConsistentCopy ==
    /\ \A r \in Reports : repPc[r] = "send" => copy[r].Alloc = copy[r].RandomValue
    /\ Cardinality(Collecting) <= 1

(***************************************************************************)
(* C11  No new work after cancellation, as claimed: in a step taken with   *)
(* the shared context already cancelled, the scheduling loop starts no     *)
(* poll goroutine and no report goroutine.                                 *)
(***************************************************************************)
C11_NoNewWorkAfterCancel ==
    [][ctxDone => /\ Started(pollPc') = Started(pollPc)
                  /\ Started(repPc') = Started(repPc)]_vars

(***************************************************************************)
(* C12  Exit only after in-flight work, as claimed: when errCh is closed,  *)
(* every poll and report goroutine the loop has started has finished.      *)
(***************************************************************************)
Running(pcs) == {i \in DOMAIN pcs : pcs[i] \notin {"none", "done"}}

C12_ExitAfterInFlight ==
    errChClosed => (Running(pollPc) = {} /\ Running(repPc) = {})

(***************************************************************************)
(* SpecAgentFair: the agent under fair scheduling.  Every goroutine that   *)
(* can take a step eventually takes it, and SendAllMetricsBatch eventually *)
(* returns (every HTTP attempt returns and the retries are bounded).  The  *)
(* tickers and the OS interrupt are the environment: nothing forces them.  *)
(***************************************************************************)
AgentFairness ==
    /\ WF_vars(LoopPoll /\ UNCHANGED agentOther)
    /\ WF_vars(LoopReport /\ UNCHANGED agentOther)
    /\ WF_vars(LoopDone /\ UNCHANGED agentOther)
    /\ \A p \in Polls :
          /\ WF_vars(PollAlloc(p) /\ UNCHANGED agentOther)
          /\ WF_vars(PollCountLoad(p) /\ UNCHANGED agentOther)
          /\ WF_vars(PollCountStore(p) /\ UNCHANGED agentOther)
          /\ WF_vars(PollRandomValue(p) /\ UNCHANGED agentOther)
    /\ \A r \in Reports :
          /\ WF_vars(RepAcquire(r) /\ UNCHANGED agentOther)
          /\ WF_vars(RepCopyAlloc(r) /\ UNCHANGED agentOther)
          /\ WF_vars(RepCopyRandomValue(r) /\ UNCHANGED agentOther)
          /\ WF_vars(RepCopyPollCount(r) /\ UNCHANGED agentOther)
          /\ WF_vars(RepSendReturns(r) /\ UNCHANGED agentOther)
    /\ WF_vars(MainReturn /\ UNCHANGED agentOther)
    /\ WF_vars(WaiterClose /\ UNCHANGED agentOther)

\* the same agent with fewer ticks, which keeps the liveness check small
NextAgentFair ==
    \/ PollTickerFires /\ Cardinality(Started(pollPc)) < FairPolls /\ UNCHANGED agentOther
    \/ ReqTickerFires /\ Cardinality(Started(repPc)) < FairReports /\ UNCHANGED agentOther
    \/ AgentSteps

SpecAgentFair == Init /\ [][NextAgentFair]_vars /\ AgentFairness

(***************************************************************************)
(* C24  Agent startup error is fatal: when the public key cannot be        *)
(* loaded, the error is received by run() from the returned channel, so    *)
(* StartAgent is never parked in its send without a receiver and the       *)
(* process is never ended by the runtime instead of by run() returning.    *)
(***************************************************************************)
C24_StartupErrorReachesCaller ==
    mainPc \notin {"sendBlocked", "fatal"}

(***************************************************************************)
(* C13  Agent shutdown terminates: with cfg.RateLimit >= 1, once the       *)
(* interrupt has cancelled the context, errCh is eventually closed (and    *)
(* run() returns).                                                         *)
(***************************************************************************)
C13_ShutdownTerminates ==
    (ctxDone /\ rateLimit >= 1) ~> errChClosed

C13_Witness ==
    /\ errChClosed
    /\ rateLimit >= 1
    /\ rateLimit < FairReports
    /\ Cardinality({r \in Reports : repPc[r] = "done"}) = FairReports
    /\ Cardinality({p \in Polls : pollPc[p] = "done"}) = FairPolls

(***************************************************************************)
(* SpecSend: one call of sendMetricsBatch after the body is built.  The    *)
(* client is retryablehttp.NewClient() with RetryMax = 3 and Backoff =     *)
(* customBackoff; CheckRetry is left at the library's DefaultRetryPolicy.  *)
(* client.Do loops for i = 0, 1, ...: it makes an attempt, asks CheckRetry, *)
(* leaves the loop when CheckRetry says no or RetryMax - i <= 0, and       *)
(* otherwise sleeps Backoff(min, max, i, resp).  After the loop it returns *)
(* the response when the last attempt had no error and was not to be       *)
(* retried, and a "giving up after N attempt(s)" error otherwise.          *)
(***************************************************************************)
RetryMax == 3

\* what one attempt can meet: a connection failure (refused, dial failure),
\* or a response with a status code
ConnFailure == [err |-> TRUE, status |-> 0]
Response(code) == [err |-> FALSE, status |-> code]
StatusCodes == {200, 400, 429, 500, 501}
Outcomes == {ConnFailure} \cup {Response(code) : code \in StatusCodes}

\* the client's CheckRetry: connection errors, 429, and 5xx other than 501
DefaultRetryPolicy(o) ==
    \/ o.err
    \/ o.status = 429
    \/ o.status = 0
    \/ (o.status >= 500 /\ o.status # 501)

\* delays := {1s, 3s, 5s}; indx := min(attemptNum, len(delays)-1)
delays == <<1, 3, 5>>
customBackoff(attemptNum) ==
    delays[(IF attemptNum >= Len(delays) THEN Len(delays) - 1 ELSE attemptNum) + 1]

ErrSendBatch == "failed to send batch request"
ErrStatus    == "server returned status"

\* what sendMetricsBatch returns once client.Do has left its loop on outcome o
SendResult(o) ==
    IF o.err \/ DefaultRetryPolicy(o) THEN ErrSendBatch
    ELSE IF o.status # 200 THEN ErrStatus
    ELSE ErrNil

DoAttemptOneFewer(o) ==
    /\ sendPc = "Do"
    /\ outcomes' = Append(outcomes, o)
    /\ IF ~DefaultRetryPolicy(o) \/ RetryMax - sendI - 1 <= 0
       THEN /\ sendPc' = "done"
            /\ sendErr' = SendResult(o)
            /\ UNCHANGED <<sendI, waits>>
       ELSE /\ sendPc' = "Backoff"
            /\ waits' = Append(waits, customBackoff(sendI))
            /\ UNCHANGED <<sendI, sendErr>>

\* one pass of the loop in client.Do: the attempt, CheckRetry, the remaining
\* retries, and either the return of sendMetricsBatch or the choice of a wait
DoAttempt(o) ==
    /\ sendPc = "Do"
    /\ outcomes' = Append(outcomes, o)
    /\ IF ~DefaultRetryPolicy(o) \/ RetryMax - sendI <= 0
       THEN /\ sendPc' = "done"
            /\ sendErr' = SendResult(o)
            /\ UNCHANGED <<sendI, waits>>
       ELSE /\ sendPc' = "Backoff"
            /\ waits' = Append(waits, customBackoff(sendI))
            /\ UNCHANGED <<sendI, sendErr>>

\* the wait is over: i++ and the next attempt
BackoffElapsed ==
    /\ sendPc = "Backoff"
    /\ sendI' = sendI + 1
    /\ sendPc' = "Do"
    /\ UNCHANGED <<outcomes, waits, sendErr>>

sendOther == <<storeVars, snapVars, concVars, agentVars, serverVars, restoreVars, wireVars, httpVars, cryptoVars, batchVars, valueLessVars, persistVars, pollCountVars, classifyVars, poolVars>>

NextSend ==
    \/ \E o \in Outcomes : DoAttempt(o) /\ UNCHANGED sendOther
    \/ BackoffElapsed /\ UNCHANGED sendOther

SpecSend == Init /\ [][NextSend]_vars

AllConnFailures == \A k \in 1..Len(outcomes) : outcomes[k].err

(***************************************************************************)
(* C9  Retry bound: a delivery never makes more than RetryMax + 1 = 4      *)
(* attempts; when every attempt fails with a connection failure it gives   *)
(* up after exactly 4 attempts (waits of 1, 3 and 5 seconds between them), *)
(* never earlier, and sendMetricsBatch returns an error.                   *)
(***************************************************************************)
C9_RetryBound ==
    /\ Len(outcomes) <= RetryMax + 1
    /\ (sendPc = "done" /\ AllConnFailures) =>
          /\ Len(outcomes) = RetryMax + 1
          /\ waits = <<1, 3, 5>>
          /\ sendErr = ErrSendBatch

C9_Witness ==
    /\ sendPc = "done"
    /\ AllConnFailures
    /\ Len(outcomes) = 4
    /\ sendErr = ErrSendBatch

(***************************************************************************)
(* C10  Non-transient failures are not retried, as claimed: an attempt the *)
(* server answers with a status other than 200 is the last attempt of the  *)
(* delivery, and the delivery is over.                                     *)
(***************************************************************************)
C10_NonOKNotRetried ==
    \A k \in 1..Len(outcomes) :
       (~outcomes[k].err /\ outcomes[k].status # 200) =>
          /\ k = Len(outcomes)
          /\ sendPc = "done"

(***************************************************************************)
(* SpecServer: Serve.  setupServer, setupPeriodicSaver (Start), then       *)
(* runServerWithGracefulShutdown: the select over serverErr and quit, and  *)
(* gracefulShutdown.  The PeriodicSaver loop goroutine selects over its    *)
(* ticker and ps.stopCh and closes ps.done when it returns.                *)
(***************************************************************************)
ErrFinalSave == "failed to save metrics on shutdown"
ErrServer    == "server error"

\* setupServer and setupPeriodicSaver.  In setupServer the connection is
\* opened with "dbConn, err :=" inside the if block, which declares a new
\* dbConn: the outer one, stored in components.dbConn, stays nil.
SrvSetup(addrDB, interval) ==
    /\ srvPc = "setup"
    /\ cfgAddrDB' = addrDB
    /\ dbOpen' = addrDB
    /\ componentsDbConn' = FALSE
    /\ saverPc' = IF interval THEN "select" ELSE "none"
    /\ srvPc' = "select"
    /\ UNCHANGED <<saverTick, nSaves, stopCh, done, stopWaited, steps, drainErr, saveErr, exitErr>>

\* time passes: the saver's ticker puts a tick on its channel
SaverTickerFires ==
    /\ saverPc \in {"select", "saving"}
    /\ ~saverTick
    /\ nSaves < MaxSaves
    /\ saverTick' = TRUE
    /\ UNCHANGED <<srvPc, cfgAddrDB, dbOpen, componentsDbConn, saverPc, nSaves, stopCh, done,
                   stopWaited, steps, drainErr, saveErr, exitErr>>

\* case <-ticker.C: saveToFile starts
SaverSaveStart ==
    /\ saverPc = "select"
    /\ saverTick
    /\ saverTick' = FALSE
    /\ saverPc' = "saving"
    /\ nSaves' = nSaves + 1
    /\ UNCHANGED <<srvPc, cfgAddrDB, dbOpen, componentsDbConn, stopCh, done,
                   stopWaited, steps, drainErr, saveErr, exitErr>>

\* saveToFile returns; its error is only logged
SaverSaveEnd ==
    /\ saverPc = "saving"
    /\ saverPc' = "select"
    /\ UNCHANGED <<srvPc, cfgAddrDB, dbOpen, componentsDbConn, saverTick, nSaves, stopCh, done,
                   stopWaited, steps, drainErr, saveErr, exitErr>>

\* case <-ps.stopCh: return, with the deferred ticker.Stop() and close(ps.done)
SaverExit ==
    /\ saverPc = "select"
    /\ stopCh
    /\ saverPc' = "exited"
    /\ done' = TRUE
    /\ saverTick' = FALSE
    /\ UNCHANGED <<srvPc, cfgAddrDB, dbOpen, componentsDbConn, nSaves, stopCh,
                   stopWaited, steps, drainErr, saveErr, exitErr>>

\* case <-quit
SrvInterrupt ==
    /\ srvPc = "select"
    /\ srvPc' = "gracefulShutdown"
    /\ UNCHANGED <<cfgAddrDB, dbOpen, componentsDbConn, saverPc, saverTick, nSaves, stopCh, done,
                   stopWaited, steps, drainErr, saveErr, exitErr>>

SrvStopSkipped ==
    /\ srvPc = "gracefulShutdown"
    /\ srvPc' = "Shutdown"
    /\ UNCHANGED <<cfgAddrDB, dbOpen, componentsDbConn, saverPc, saverTick, nSaves, stopCh, done,
                   stopWaited, steps, drainErr, saveErr, exitErr>>

\* if saver != nil { saver.Stop() }: close(ps.stopCh), then the wait for ps.done
SrvStop ==
    /\ srvPc = "gracefulShutdown"
    /\ IF saverPc # "none"
       THEN /\ stopCh' = TRUE
            /\ stopWaited' = (saverPc = "saving")
            /\ srvPc' = "Stop"
       ELSE /\ srvPc' = "Shutdown"
            /\ UNCHANGED <<stopCh, stopWaited>>
    /\ UNCHANGED <<cfgAddrDB, dbOpen, componentsDbConn, saverPc, saverTick, nSaves, done,
                   steps, drainErr, saveErr, exitErr>>

SrvStopReturnsAtOnce ==
    /\ srvPc = "Stop"
    /\ srvPc' = "Shutdown"
    /\ steps' = Append(steps, "Stop")
    /\ UNCHANGED <<cfgAddrDB, dbOpen, componentsDbConn, saverPc, saverTick, nSaves, stopCh, done,
                   stopWaited, drainErr, saveErr, exitErr>>

\* <-ps.done: Stop returns
SrvStopReturns ==
    /\ srvPc = "Stop"
    /\ done
    /\ srvPc' = "Shutdown"
    /\ steps' = Append(steps, "Stop")
    /\ UNCHANGED <<cfgAddrDB, dbOpen, componentsDbConn, saverPc, saverTick, nSaves, stopCh, done,
                   stopWaited, drainErr, saveErr, exitErr>>

SrvShutdownAborts(err) ==
    /\ srvPc = "Shutdown"
    /\ drainErr' = err
    /\ steps' = Append(steps, "Shutdown")
    /\ IF err THEN srvPc' = "returned" /\ exitErr' = "Server shutdown error"
              ELSE srvPc' = "saveToFile" /\ UNCHANGED exitErr
    /\ UNCHANGED <<cfgAddrDB, dbOpen, componentsDbConn, saverPc, saverTick, nSaves, stopCh, done,
                   stopWaited, saveErr>>

\* srv.Shutdown(ctx) with the 30 s timeout returns; its error is only logged
SrvShutdown(err) ==
    /\ srvPc = "Shutdown"
    /\ drainErr' = err
    /\ steps' = Append(steps, "Shutdown")
    /\ srvPc' = "saveToFile"
    /\ UNCHANGED <<cfgAddrDB, dbOpen, componentsDbConn, saverPc, saverTick, nSaves, stopCh, done,
                   stopWaited, saveErr, exitErr>>

\* the final saveToFile starts
SrvFinalSaveStart ==
    /\ srvPc = "saveToFile"
    /\ srvPc' = "saving"
    /\ steps' = Append(steps, "saveToFile")
    /\ UNCHANGED <<cfgAddrDB, dbOpen, componentsDbConn, saverPc, saverTick, nSaves, stopCh, done,
                   stopWaited, drainErr, saveErr, exitErr>>

\* the final saveToFile returns: its error is returned; otherwise
\* if dbConn != nil { dbConn.Close() } and return nil
SrvFinalSaveEnd(err) ==
    /\ srvPc = "saving"
    /\ saveErr' = err
    /\ srvPc' = "returned"
    /\ IF err
       THEN /\ exitErr' = ErrFinalSave
            /\ UNCHANGED <<dbOpen, steps>>
       ELSE /\ exitErr' = ErrNil
            /\ IF componentsDbConn
               THEN dbOpen' = FALSE /\ steps' = Append(steps, "Close")
               ELSE UNCHANGED <<dbOpen, steps>>
    /\ UNCHANGED <<cfgAddrDB, componentsDbConn, saverPc, saverTick, nSaves, stopCh, done,
                   stopWaited, drainErr>>

\* case err := <-serverErr with err != nil, falling through to gracefulShutdown
\* as the interrupt case does
SrvListenErrorFallsThrough ==
    /\ srvPc = "select"
    /\ srvPc' = "gracefulShutdown"
    /\ exitErr' = ErrServer
    /\ UNCHANGED <<cfgAddrDB, dbOpen, componentsDbConn, saverPc, saverTick, nSaves, stopCh, done,
                   stopWaited, steps, drainErr, saveErr>>

\* case err := <-serverErr with err != nil: saver.Stop() is called, or, without
\* a saver, the error is returned at once
SrvListenError ==
    /\ srvPc = "select"
    /\ IF saverPc # "none"
       THEN /\ stopCh' = TRUE
            /\ stopWaited' = (saverPc = "saving")
            /\ srvPc' = "errStop"
            /\ UNCHANGED exitErr
       ELSE /\ srvPc' = "returned"
            /\ exitErr' = ErrServer
            /\ UNCHANGED <<stopCh, stopWaited>>
    /\ UNCHANGED <<cfgAddrDB, dbOpen, componentsDbConn, saverPc, saverTick, nSaves, done,
                   steps, drainErr, saveErr>>

\* <-ps.done and return fmt.Errorf("server error: %w", err)
SrvErrStopReturns ==
    /\ srvPc = "errStop"
    /\ done
    /\ srvPc' = "returned"
    /\ exitErr' = ErrServer
    /\ UNCHANGED <<cfgAddrDB, dbOpen, componentsDbConn, saverPc, saverTick, nSaves, stopCh, done,
                   stopWaited, steps, drainErr, saveErr>>

serverOther == <<storeVars, snapVars, concVars, agentVars, sendVars, restoreVars, wireVars, httpVars, cryptoVars, batchVars, valueLessVars, persistVars, pollCountVars, classifyVars, poolVars>>

NextServer ==
    \/ \E addrDB \in BOOLEAN, interval \in BOOLEAN : SrvSetup(addrDB, interval) /\ UNCHANGED serverOther
    \/ SaverTickerFires /\ UNCHANGED serverOther
    \/ SaverSaveStart /\ UNCHANGED serverOther
    \/ SaverSaveEnd /\ UNCHANGED serverOther
    \/ SaverExit /\ UNCHANGED serverOther
    \/ SrvInterrupt /\ UNCHANGED serverOther
    \/ SrvStop /\ UNCHANGED serverOther
    \/ SrvStopReturns /\ UNCHANGED serverOther
    \/ \E err \in BOOLEAN : SrvShutdown(err) /\ UNCHANGED serverOther
    \/ SrvFinalSaveStart /\ UNCHANGED serverOther
    \/ \E err \in BOOLEAN : SrvFinalSaveEnd(err) /\ UNCHANGED serverOther
    \/ SrvListenError /\ UNCHANGED serverOther
    \/ SrvErrStopReturns /\ UNCHANGED serverOther

SpecServer == Init /\ [][NextServer]_vars

(***************************************************************************)
(* C14  PeriodicSaver stop handshake: once Stop() has returned, ps.done is *)
(* closed and the loop goroutine has exited, so no periodic save is        *)
(* running and none can start; a save in progress when Stop() is called is *)
(* waited for.                                                             *)
(***************************************************************************)
StopReturned == stopCh /\ srvPc \notin {"Stop", "errStop"}

C14_StopHandshake ==
    StopReturned => (done /\ saverPc = "exited")

C14_Witness ==
    /\ StopReturned
    /\ stopWaited
    /\ saverPc = "exited"
    /\ nSaves = MaxSaves

(***************************************************************************)
(* C15  Server shutdown order: the steps of a graceful shutdown happen in  *)
(* the order Stop (PeriodicSaver), Shutdown (drain), saveToFile (final     *)
(* save), Close (connection); when the final save starts the saver loop    *)
(* has exited and the drain has returned, so no periodic save runs during  *)
(* or after the final save.                                                *)
(***************************************************************************)
StepRank(step) ==
    CASE step = "Stop" -> 1
      [] step = "Shutdown" -> 2
      [] step = "saveToFile" -> 3
      [] step = "Close" -> 4

Performed(step) == \E i \in 1..Len(steps) : steps[i] = step

C16_ConnectionClosed ==
    (srvPc = "returned" /\ exitErr = ErrNil /\ cfgAddrDB) => ~dbOpen

(***************************************************************************)
(* C17  Shutdown step failures: when gracefulShutdown has returned, the    *)
(* final save was performed whether or not the drain failed; the result is *)
(* the final save's error when it failed and nil otherwise.                *)
(***************************************************************************)
C17_ShutdownFailures ==
    (srvPc = "returned" /\ exitErr # ErrServer) =>
        /\ Performed("Shutdown") /\ Performed("saveToFile")
        /\ exitErr = (IF saveErr THEN ErrFinalSave ELSE ErrNil)

C17_Witness ==
    /\ srvPc = "returned"
    /\ drainErr
    /\ ~saveErr
    /\ Performed("saveToFile")
    /\ exitErr = ErrNil

(***************************************************************************)
(* C31  Listen failure path: when runServerWithGracefulShutdown has        *)
(* returned the server error, the periodic saver (if any) has been stopped *)
(* and has exited, and neither the drain nor the final save nor the Close  *)
(* was performed; a final save is performed only on the interrupt path,    *)
(* which never returns the server error.                                   *)
(***************************************************************************)
C31_ListenFailurePath ==
    /\ (srvPc = "returned" /\ exitErr = ErrServer) =>
           /\ steps = <<>>
           /\ saverPc \in {"none", "exited"}
           /\ saverPc = "exited" => (stopCh /\ done)
    /\ srvPc = "errStop" => steps = <<>>
    /\ Performed("saveToFile") => (srvPc \in {"saving", "returned"} /\ exitErr # ErrServer)

\* the listen error arrived while a periodic save was running: Stop waited
\* for it, and the error was returned with no step of the shutdown performed
C31_Witness ==
    /\ srvPc = "returned"
    /\ exitErr = ErrServer
    /\ stopWaited
    /\ saverPc = "exited"
    /\ nSaves >= 1
    /\ steps = <<>>

(***************************************************************************)
(* C33  Record well-formedness: in every reachable state of either backend *)
(* every record GetAll returns has kind gauge or counter and exactly its   *)
(* kind's field populated (Value for a gauge, Delta for a counter), and    *)
(* the number of records is the number of stored gauges plus the number of *)
(* stored counters.                                                        *)
(***************************************************************************)
WellFormed(r) ==
    /\ r.MType \in {"gauge", "counter"}
    /\ r.MType = "gauge" => (r.Value.set /\ ~r.Delta.set)
    /\ r.MType = "counter" => (r.Delta.set /\ ~r.Value.set)

\* the names a backend returns a gauge for, and those it returns a counter for
MemStored(m) ==
    Cardinality({n \in Names : MemGetGauge(m, n).err = ErrNil})
    + Cardinality({n \in Names : MemGetCounter(m, n).err = ErrNil})
DBStored(d) ==
    Cardinality({n \in Names : DBGetGauge(d, n).err = ErrNil})
    + Cardinality({n \in Names : DBGetCounter(d, n).err = ErrNil})

C33_MemRecordsWellFormed ==
    \A list \in MemGetAll(mem) :
        /\ \A i \in 1..Len(list) : WellFormed(list[i])
        /\ Len(list) = MemStored(mem)

C33_RecordsWellFormed ==
    /\ C33_MemRecordsWellFormed
    /\ \A list \in DBGetAll(db) :
          /\ \A i \in 1..Len(list) : WellFormed(list[i])
          /\ Len(list) = DBStored(db)

(***************************************************************************)
(* SpecRestore: setupServer with cfg.Restore set finds a snapshot file of  *)
(* any content and runs loadFromFile on the new MemStorage.  A file is     *)
(* missing, empty, not decodable as a JSON array of metrics, or a JSON     *)
(* array (or null) of objects with id, type and optional delta and value.  *)
(***************************************************************************)
ErrUnmarshal == "failed to unmarshal metrics"

FileKinds == {"gauge", "counter", "histogram"}
FileObjects ==
    [id : Names, type : FileKinds,
     delta : {Absent, Token("1")}, value : {Absent, Token("1.5")}]
SnapshotFiles ==
    {[kind |-> k, null |-> FALSE, arr |-> <<>>] : k \in {"missing", "empty", "malformed"}}
    \cup {[kind |-> "json", null |-> TRUE, arr |-> <<>>]}
    \cup {[kind |-> "json", null |-> FALSE, arr |-> q] :
             q \in UNION {[1..k -> FileObjects] : k \in 0..MaxFileRecs}}

\* loadFromFile with readFile and deserializeMetrics: the store and the error
loadFromFileResult(m, f) ==
    CASE f.kind = "missing"   -> [store |-> m, err |-> ErrNil]
      [] f.kind = "empty"     -> [store |-> m, err |-> ErrNil]
      [] f.kind = "malformed" -> [store |-> m, err |-> ErrUnmarshal]
      [] OTHER -> [store |-> LoadLoop(m, deserializeMetrics(f)), err |-> ErrNil]

\* a snapshot file is in place when the server starts
PlaceFile(f) ==
    /\ rpc = "init"
    /\ rfile' = f
    /\ rpc' = "placed"
    /\ UNCHANGED <<rstore, rerr>>

\* setupServer: storage = NewMemStorage(); loadFromFile (its error is logged)
RestoreLoad ==
    /\ rpc = "placed"
    /\ rstore' = loadFromFileResult(NewMemStorage, rfile).store
    /\ rerr' = loadFromFileResult(NewMemStorage, rfile).err
    /\ rpc' = "loaded"
    /\ UNCHANGED rfile

restoreOther == <<storeVars, snapVars, concVars, agentVars, sendVars, serverVars, wireVars, httpVars, cryptoVars, batchVars, valueLessVars, persistVars, pollCountVars, classifyVars, poolVars>>

NextRestore ==
    \/ \E f \in SnapshotFiles : PlaceFile(f) /\ UNCHANGED restoreOther
    \/ RestoreLoad /\ UNCHANGED restoreOther

SpecRestore == Init /\ [][NextRestore]_vars

(***************************************************************************)
(* C18  Tolerant restore: for every snapshot file that is missing, empty   *)
(* or a JSON list of records, loadFromFile returns no error; the store     *)
(* then holds, for each name, the value of the last gauge record carrying  *)
(* a value and the sum of the deltas of the counter records carrying one,  *)
(* and nothing else: records of another kind are skipped; a missing or     *)
(* empty file leaves the store empty.                                      *)
(***************************************************************************)
GaugeRecsOf(arr, n) ==
    {i \in 1..Len(arr) : arr[i].type = "gauge" /\ arr[i].id = n /\ arr[i].value.present}
CounterRecsOf(arr, n) ==
    {i \in 1..Len(arr) : arr[i].type = "counter" /\ arr[i].id = n /\ arr[i].delta.present}
LastOf(S) == CHOOSE i \in S : \A j \in S : j <= i
RECURSIVE SumDeltas(_, _)
SumDeltas(arr, S) ==
    IF S = {} THEN 0
    ELSE LET i == LastOf(S) IN ParseInt(arr[i].delta.text) + SumDeltas(arr, S \ {i})

C18_TolerantRestore ==
    (rpc = "loaded" /\ rfile.kind # "malformed") =>
        /\ rerr = ErrNil
        /\ rfile.kind \in {"missing", "empty"} => rstore = NewMemStorage
        /\ \A n \in Names :
              /\ n \in DOMAIN rstore.Gauges <=> GaugeRecsOf(rfile.arr, n) # {}
              /\ n \in DOMAIN rstore.Gauges =>
                    rstore.Gauges[n] = ParseFloat(rfile.arr[LastOf(GaugeRecsOf(rfile.arr, n))].value.text)
              /\ n \in DOMAIN rstore.Counters <=> CounterRecsOf(rfile.arr, n) # {}
              /\ n \in DOMAIN rstore.Counters =>
                    rstore.Counters[n] = SumDeltas(rfile.arr, CounterRecsOf(rfile.arr, n))

C18_Witness ==
    /\ rpc = "loaded"
    /\ rfile.kind = "json"
    /\ Len(rfile.arr) = 2
    /\ rfile.arr[1].type = "histogram"
    /\ rfile.arr[2].type = "gauge" /\ rfile.arr[2].value.present
    /\ rfile.arr[2].id \in DOMAIN rstore.Gauges
    /\ rerr = ErrNil

(***************************************************************************)
(* One batch from sendMetricsBatch to the handler of the batch endpoint.   *)
(* Agent side: internal/agent/agent.go.  Server side: the decompression    *)
(* middleware of internal/handler; the decryption and signature stages     *)
(* follow the design document, section 4.4.                                *)
(***************************************************************************)
wireOther == <<storeVars, snapVars, concVars, agentVars, sendVars, serverVars, restoreVars, httpVars, cryptoVars, batchVars, valueLessVars, persistVars, pollCountVars, classifyVars, poolVars>>

\* sendMetricsBatch is called with a batch, under one configuration
WireStart(batch, key, keypair) ==
    /\ wpc = "idle"
    /\ wpc' = "marshal"
    /\ wbatch' = batch
    /\ wkey' = key
    /\ wkeypair' = keypair
    /\ UNCHANGED <<wdata, wbuffer, hashString, wreq, wbody, wstatus, wsteps, wireOther>>

\* data, err := json.Marshal(metrics)
WireMarshal ==
    /\ wpc = "marshal"
    /\ wdata' = Marshal(wbatch)
    /\ wsteps' = Append(wsteps, "serialize")
    /\ wpc' = "compress"
    /\ UNCHANGED <<wbatch, wkey, wkeypair, wbuffer, hashString, wreq, wbody, wstatus, wireOther>>

\* buffer, err := CompressData(data)
WireCompress ==
    /\ wpc = "compress"
    /\ wbuffer' = CompressData(wdata)
    /\ wsteps' = Append(wsteps, "compress")
    /\ wpc' = "sign"
    /\ UNCHANGED <<wbatch, wkey, wkeypair, wdata, hashString, wreq, wbody, wstatus, wireOther>>

\* the signature is taken of the JSON text instead of the compressed bytes
WireSignOfJSON ==
    /\ wpc = "sign"
    /\ IF wkey # ""
       THEN /\ hashString' = calculateSHA256Hash(wdata, wkey)
            /\ wsteps' = Append(wsteps, "sign")
       ELSE UNCHANGED <<hashString, wsteps>>
    /\ wpc' = "encrypt"
    /\ UNCHANGED <<wbatch, wkey, wkeypair, wdata, wbuffer, wreq, wbody, wstatus, wireOther>>

\* if key != "" { hashString = calculateSHA256Hash(buffer, key) }
WireSign ==
    /\ wpc = "sign"
    /\ IF wkey # ""
       THEN /\ hashString' = calculateSHA256Hash(wbuffer, wkey)
            /\ wsteps' = Append(wsteps, "sign")
       ELSE UNCHANGED <<hashString, wsteps>>
    /\ wpc' = "encrypt"
    /\ UNCHANGED <<wbatch, wkey, wkeypair, wdata, wbuffer, wreq, wbody, wstatus, wireOther>>

\* if publicKey != nil { buffer, err = cryptoutil.EncryptDataHybrid(publicKey, buffer) }
WireEncrypt ==
    /\ wpc = "encrypt"
    /\ IF wkeypair
       THEN /\ wbuffer' = EncryptDataHybrid(wbuffer)
            /\ wsteps' = Append(wsteps, "encrypt")
       ELSE UNCHANGED <<wbuffer, wsteps>>
    /\ wpc' = "post"
    /\ UNCHANGED <<wbatch, wkey, wkeypair, wdata, hashString, wreq, wbody, wstatus, wireOther>>

\* NewRequest("POST", url, buffer), the headers, client.Do(req): the request
\* reaches the server
WirePost ==
    /\ wpc = "post"
    /\ wreq' = [Body |-> wbuffer, ContentEncoding |-> "gzip", HashSHA256 |-> hashString]
    /\ wbody' = wbuffer
    /\ wsteps' = Append(wsteps, "post")
    /\ wpc' = "received"
    /\ UNCHANGED <<wbatch, wkey, wkeypair, wdata, wbuffer, hashString, wstatus, wireOther>>

\* DecompressMiddleware
DecompressMiddleware ==
    /\ wpc = "received"
    /\ LET res == Decompress(wreq.ContentEncoding, wbody) IN
       IF res.status = 0
       THEN /\ wbody' = res.body
            /\ wpc' = "decompressed"
            /\ UNCHANGED wstatus
       ELSE /\ wstatus' = res.status
            /\ wpc' = "responded"
            /\ UNCHANGED wbody
    /\ UNCHANGED <<wbatch, wkey, wkeypair, wdata, wbuffer, hashString, wreq, wsteps, wireOther>>

\* Decryption: if a private key is configured and the body is non-empty,
\* hybrid-decrypt; failure is 400
DecryptMiddleware ==
    /\ wpc = "decompressed"
    /\ IF wkeypair /\ wbody # NoBytes
       THEN IF DecryptDataHybrid(wbody).ok
            THEN /\ wbody' = DecryptDataHybrid(wbody).out
                 /\ wpc' = "decrypted"
                 /\ UNCHANGED wstatus
            ELSE /\ wstatus' = StatusBadRequest
                 /\ wpc' = "responded"
                 /\ UNCHANGED wbody
       ELSE /\ wpc' = "decrypted"
            /\ UNCHANGED <<wbody, wstatus>>
    /\ UNCHANGED <<wbatch, wkey, wkeypair, wdata, wbuffer, hashString, wreq, wsteps, wireOther>>

\* Verify(payload, key, hexHMAC): the HMAC of the payload under the key is the
\* one given
Verify(payload, key, hexHMAC) == calculateSHA256Hash(payload, key) = hexHMAC

\* Signature check: if there is a HashSHA256 header and a key is configured,
\* verify the body; a mismatch is 400
SignatureMiddleware ==
    /\ wpc = "decrypted"
    /\ IF wreq.HashSHA256 # NoBytes /\ wkey # ""
       THEN IF Verify(wbody, wkey, wreq.HashSHA256)
            THEN /\ wpc' = "signature-checked"
                 /\ UNCHANGED wstatus
            ELSE /\ wstatus' = StatusBadRequest
                 /\ wpc' = "responded"
       ELSE /\ wpc' = "signature-checked"
            /\ UNCHANGED wstatus
    /\ UNCHANGED <<wbatch, wkey, wkeypair, wdata, wbuffer, hashString, wreq, wbody, wsteps, wireOther>>

\* the request is routed to the handler of the batch endpoint, which reads
\* the body the chain left and answers
WireRouted ==
    /\ wpc = "signature-checked"
    /\ wstatus' = StatusOK
    /\ wpc' = "responded"
    /\ UNCHANGED <<wbatch, wkey, wkeypair, wdata, wbuffer, hashString, wreq, wbody, wsteps, wireOther>>

NextWire ==
    \/ \E batch \in Batches, key \in WireKeys, keypair \in BOOLEAN : WireStart(batch, key, keypair)
    \/ WireMarshal
    \/ WireCompress
    \/ WireSign
    \/ WireEncrypt
    \/ WirePost
    \/ DecompressMiddleware
    \/ DecryptMiddleware
    \/ SignatureMiddleware
    \/ WireRouted

SpecWire == Init /\ [][NextWire]_vars

\* the request has been posted
Posted == wpc \notin {"idle", "marshal", "compress", "sign", "encrypt", "post"}

\* the build steps of a batch under a configuration, in the order of the code
BuildSteps(key, keypair) ==
    <<"serialize", "compress">>
        \o (IF key # "" THEN <<"sign">> ELSE <<>>)
        \o (IF keypair THEN <<"encrypt">> ELSE <<>>)
        \o <<"post">>

\* C19: every batch the agent posts was serialized, then compressed, then
\* signed (when a key is set), then encrypted (when a keypair is set), then
\* posted, and the HashSHA256 header is the HMAC of the gzip bytes as they
\* were before encryption: not of the JSON text, not of the encrypted bytes.
C19_PipelineOrder ==
    Posted =>
        /\ wsteps = BuildSteps(wkey, wkeypair)
        /\ wreq.ContentEncoding = "gzip"
        /\ wreq.Body = IF wkeypair THEN EncryptDataHybrid(CompressData(Marshal(wbatch)))
                       ELSE CompressData(Marshal(wbatch))
        /\ wkey = "" => wreq.HashSHA256 = NoBytes
        /\ wkey # "" =>
              /\ wreq.HashSHA256 = calculateSHA256Hash(CompressData(Marshal(wbatch)), wkey)
              /\ wreq.HashSHA256 # calculateSHA256Hash(Marshal(wbatch), wkey)
              /\ wreq.HashSHA256 # calculateSHA256Hash(wreq.Body, wkey) \/ ~wkeypair

C19_Witness ==
    /\ Posted
    /\ wkey # ""
    /\ wkeypair
    /\ Len(wbatch) = MaxBatch
    /\ wsteps = <<"serialize", "compress", "sign", "encrypt", "post">>
    /\ wreq.HashSHA256 = calculateSHA256Hash(CompressData(Marshal(wbatch)), wkey)

\* C20: for every batch and every configuration of key and keypair shared by
\* both sides, the server's chain (decompression, decryption, signature
\* check) accepts the request the agent built: it answers 200 and the
\* handler is given the JSON text of the batch.
C20_WireAgreement ==
    wpc = "responded" => (wstatus = StatusOK /\ wbody = Marshal(wbatch))

(***************************************************************************)
(* The routes of NewRouter over a relational store, one request at a time. *)
(* A request may find the backend failing: every statement of the request  *)
(* then returns an I/O error and changes nothing.                          *)
(***************************************************************************)
MaxRequests == 2

ErrIO == "driver: bad connection"

RouteUpdateJSON  == "POST /update/"
RouteUpdateValue == "POST /update/{typeMetric}/{metric}/{value}"
RouteGetValue    == "GET /value/{typeMetric}/{metric}"
RouteGetJSON     == "POST /value/"

\* the routes wrapped in DecompressMiddleware
Decompressed == {RouteUpdateJSON, RouteGetJSON}

HttpKinds == {"gauge", "counter", "histogram"}
\* JSON objects a client may send
HttpObjects == [id : Names, type : HttpKinds,
                delta : {Absent, Token("1")}, value : {Absent, Token("1.5")}]
\* request bodies: the JSON text, its gzip stream, a corrupt gzip stream of
\* it, and bytes that are neither
HttpBodies == {Marshal(o) : o \in HttpObjects}
              \cup {CompressData(Marshal(o)) : o \in HttpObjects}
              \cup {CorruptGzip(Marshal(o)) : o \in HttpObjects}
              \cup {Garbage}
\* the {value} segment of the path
UrlValues == {"1", "1.5", "x"}

\* strconv.ParseFloat(valueMetric, 64) succeeds
IsFloatText(t) == t \in {"1", "1.5"}
\* strconv.ParseInt(valueMetric, 10, 64) succeeds
IsIntText(t) == \E d \in 0..(MaxTotal + MaxDelta) : ToString(d) = t

JSONRequest(route, enc, body) ==
    [route |-> route, ContentEncoding |-> enc, Body |-> body,
     typeMetric |-> "", metric |-> "", value |-> ""]
PathRequest(route, t, n, v) ==
    [route |-> route, ContentEncoding |-> "", Body |-> NoBytes,
     typeMetric |-> t, metric |-> n, value |-> v]

HttpRequests ==
    {JSONRequest(r, enc, b) : r \in Decompressed, enc \in {"", "gzip"}, b \in HttpBodies}
    \cup {PathRequest(RouteUpdateValue, t, n, v) :
             t \in HttpKinds, n \in Names \cup {""}, v \in UrlValues}
    \cup {PathRequest(RouteGetValue, t, n, "") : t \in HttpKinds, n \in Names}

\* d.db.Exec of SetGauge / SetCounter: (store, error)
StorageSetGauge(d, down, name, value) ==
    IF down THEN [st |-> d, err |-> ErrIO]
    ELSE [st |-> DBSetGauge(d, name, value), err |-> ErrNil]
StorageSetCounter(d, down, name, value) ==
    IF down THEN [st |-> d, err |-> ErrIO]
    ELSE [st |-> DBSetCounter(d, name, value), err |-> ErrNil]
\* d.db.QueryRow(...).Scan of GetGauge / GetCounter: (value, error)
StorageGetGauge(d, down, name) ==
    IF down THEN [val |-> "0", err |-> ErrIO] ELSE DBGetGauge(d, name)
StorageGetCounter(d, down, name) ==
    IF down THEN [val |-> 0, err |-> ErrIO] ELSE DBGetCounter(d, name)

\* json.NewDecoder(r.Body).Decode(&metric): (metric, ok)
DecodeMetric(body) ==
    IF body.f = "json" THEN [ok |-> TRUE, metric |-> UnmarshalMetric(body.of)]
    ELSE [ok |-> FALSE, metric |-> GaugeRec("", "0")]

\* what a handler leaves: the store, the status written (0 for none), whether
\* it panicked, and what its storage call returned ("none" without a call)
Outcome(st, status, panic, serr) ==
    [st |-> st, status |-> status, panic |-> panic, serr |-> serr]

\* UpdateJSONHandler: the setter's error is not looked at
UpdateJSONHandler(d, down, body) ==
    LET dec == DecodeMetric(body)
        metric == dec.metric IN
    IF ~dec.ok THEN Outcome(d, StatusBadRequest, FALSE, "none")
    ELSE CASE metric.MType = "gauge" ->
                IF ~metric.Value.set THEN Outcome(d, 0, TRUE, "none")
                ELSE LET r == StorageSetGauge(d, down, metric.ID, metric.Value.v) IN
                     Outcome(r.st, StatusOK, FALSE, r.err)
           [] metric.MType = "counter" ->
                IF ~metric.Delta.set THEN Outcome(d, 0, TRUE, "none")
                ELSE LET r == StorageSetCounter(d, down, metric.ID, metric.Delta.v) IN
                     Outcome(r.st, StatusOK, FALSE, r.err)
           [] OTHER -> Outcome(d, StatusBadRequest, FALSE, "none")

\* UpdateValueHandler without the check of the name
UpdateValueHandlerNoNameCheck(d, down, typeMetric, nameMetric, valueMetric) ==
    CASE typeMetric = "gauge" ->
           IF ~IsFloatText(valueMetric) THEN Outcome(d, StatusBadRequest, FALSE, "none")
           ELSE LET r == StorageSetGauge(d, down, nameMetric, ParseFloat(valueMetric)) IN
                Outcome(r.st, StatusOK, FALSE, r.err)
      [] typeMetric = "counter" ->
           IF ~IsIntText(valueMetric) THEN Outcome(d, StatusBadRequest, FALSE, "none")
           ELSE LET r == StorageSetCounter(d, down, nameMetric, ParseInt(valueMetric)) IN
                Outcome(r.st, StatusOK, FALSE, r.err)
      [] OTHER -> Outcome(d, StatusBadRequest, FALSE, "none")

\* UpdateValueHandler: the setter's error is not looked at
UpdateValueHandler(d, down, typeMetric, nameMetric, valueMetric) ==
    IF nameMetric = "" THEN Outcome(d, StatusNotFound, FALSE, "none")
    ELSE CASE typeMetric = "gauge" ->
                IF ~IsFloatText(valueMetric) THEN Outcome(d, StatusBadRequest, FALSE, "none")
                ELSE LET r == StorageSetGauge(d, down, nameMetric, ParseFloat(valueMetric)) IN
                     Outcome(r.st, StatusOK, FALSE, r.err)
           [] typeMetric = "counter" ->
                IF ~IsIntText(valueMetric) THEN Outcome(d, StatusBadRequest, FALSE, "none")
                ELSE LET r == StorageSetCounter(d, down, nameMetric, ParseInt(valueMetric)) IN
                     Outcome(r.st, StatusOK, FALSE, r.err)
           [] OTHER -> Outcome(d, StatusBadRequest, FALSE, "none")

\* GetJSONHandler: every error of the getter is answered 404
GetJSONHandler(d, down, body) ==
    LET dec == DecodeMetric(body)
        metric == dec.metric IN
    IF ~dec.ok THEN Outcome(d, StatusBadRequest, FALSE, "none")
    ELSE CASE metric.MType = "gauge" ->
                LET r == StorageGetGauge(d, down, metric.ID) IN
                Outcome(d, IF r.err # ErrNil THEN StatusNotFound ELSE StatusOK, FALSE, r.err)
           [] metric.MType = "counter" ->
                LET r == StorageGetCounter(d, down, metric.ID) IN
                Outcome(d, IF r.err # ErrNil THEN StatusNotFound ELSE StatusOK, FALSE, r.err)
           [] OTHER -> Outcome(d, StatusBadRequest, FALSE, "none")

\* GetValueHandler: every error of the getter is answered 404
GetValueHandler(d, down, typeMetric, nameMetric) ==
    CASE typeMetric = "gauge" ->
           LET r == StorageGetGauge(d, down, nameMetric) IN
           Outcome(d, IF r.err # ErrNil THEN StatusNotFound ELSE StatusOK, FALSE, r.err)
      [] typeMetric = "counter" ->
           LET r == StorageGetCounter(d, down, nameMetric) IN
           Outcome(d, IF r.err # ErrNil THEN StatusNotFound ELSE StatusOK, FALSE, r.err)
      [] OTHER -> Outcome(d, StatusBadRequest, FALSE, "none")

\* fmt.Sprintf("%g", val) and fmt.Sprintf("%d", val); gauge values are
\* written in the model in the shortest form, which is the one %g prints
SprintfG(val) == FormatFloat(val)
SprintfD(val) == ToString(val)

\* GetValueHandler writing the counter as it does the gauge
GetValueWritesAlwaysGauge(d, down, typeMetric, nameMetric) ==
    IF typeMetric \in {"gauge", "counter"} /\ StorageGetGauge(d, down, nameMetric).err = ErrNil
    THEN SprintfG(StorageGetGauge(d, down, nameMetric).val)
    ELSE ""

\* the body GetValueHandler writes after WriteHeader(200)
GetValueWrites(d, down, typeMetric, nameMetric) ==
    CASE typeMetric = "gauge" /\ StorageGetGauge(d, down, nameMetric).err = ErrNil ->
           SprintfG(StorageGetGauge(d, down, nameMetric).val)
      [] typeMetric = "counter" /\ StorageGetCounter(d, down, nameMetric).err = ErrNil ->
           SprintfD(StorageGetCounter(d, down, nameMetric).val)
      [] OTHER -> ""

httpOther == <<storeVars, snapVars, concVars, agentVars, sendVars, serverVars, restoreVars, wireVars, cryptoVars, batchVars, valueLessVars, persistVars, pollCountVars, classifyVars, poolVars>>

\* the router hands a request to its route
HttpServe(req, down) ==
    /\ hpc \in {"idle", "responded"}
    /\ hcount < MaxRequests
    /\ hcount' = hcount + 1
    /\ htext' = ""
    /\ hreq' = req
    /\ hdown' = down
    /\ hpre' = hdb
    /\ hbody' = req.Body
    /\ hinvoked' = FALSE
    /\ hstorageErr' = "none"
    /\ hstatus' = 0
    /\ hpanic' = FALSE
    /\ hpc' = IF req.route \in Decompressed THEN "decompress" ELSE "handler"
    /\ UNCHANGED <<hdb, httpOther>>

\* DecompressMiddleware in front of UpdateJSONHandler and GetJSONHandler
HttpDecompress ==
    /\ hpc = "decompress"
    /\ LET res == Decompress(hreq.ContentEncoding, hbody) IN
       IF res.status = 0
       THEN /\ hbody' = res.body
            /\ hpc' = "handler"
            /\ UNCHANGED hstatus
       ELSE /\ hstatus' = res.status
            /\ hpc' = "responded"
            /\ UNCHANGED hbody
    /\ UNCHANGED <<hdb, hreq, hdown, hpre, hinvoked, hstorageErr, hpanic, hcount, htext, httpOther>>

\* the handler of the route runs
HttpHandle ==
    /\ hpc = "handler"
    /\ LET out == CASE hreq.route = RouteUpdateJSON ->
                         UpdateJSONHandler(hdb, hdown, hbody)
                    [] hreq.route = RouteUpdateValue ->
                         UpdateValueHandler(hdb, hdown, hreq.typeMetric, hreq.metric, hreq.value)
                    [] hreq.route = RouteGetJSON ->
                         GetJSONHandler(hdb, hdown, hbody)
                    [] OTHER ->
                         GetValueHandler(hdb, hdown, hreq.typeMetric, hreq.metric)
       IN /\ hdb' = out.st
          /\ hstatus' = out.status
          /\ hpanic' = out.panic
          /\ hstorageErr' = out.serr
    /\ htext' = IF hreq.route = RouteGetValue
                THEN GetValueWrites(hdb, hdown, hreq.typeMetric, hreq.metric)
                ELSE ""
    /\ hinvoked' = TRUE
    /\ hpc' = "responded"
    /\ UNCHANGED <<hreq, hdown, hpre, hbody, hcount, httpOther>>

NextHttp ==
    \/ \E req \in HttpRequests, down \in BOOLEAN : HttpServe(req, down)
    \/ HttpDecompress
    \/ HttpHandle

SpecHttp == Init /\ [][NextHttp]_vars

\* C21: a request with Content-Encoding: gzip whose body is not a
\* well-formed gzip stream is answered 400 without the wrapped handler being
\* invoked and without a change of the store; without that header the body
\* reaches the handler as it was sent.
C21_DecompressionStage ==
    (hreq.route \in Decompressed /\ hpc \in {"handler", "responded"}) =>
        /\ (hreq.ContentEncoding = "gzip" /\ hreq.Body.f # "gzip") =>
              (hstatus = StatusBadRequest /\ ~hinvoked /\ hdb = hpre)
        /\ hreq.ContentEncoding # "gzip" => (hbody = hreq.Body /\ (hpc = "responded" => hinvoked))

\* the record the JSON update handler decoded lacks the value of its kind
ValueLess(body) ==
    /\ DecodeMetric(body).ok
    /\ LET metric == DecodeMetric(body).metric IN
       \/ metric.MType = "gauge" /\ ~metric.Value.set
       \/ metric.MType = "counter" /\ ~metric.Delta.set

\* C22: a POST /update whose record is a gauge without value or a counter
\* without delta is answered 400, the store is unchanged and the handler
\* returns normally.
C22_ValueLessIsValidationError ==
    (hreq.route = RouteUpdateJSON /\ hpc = "responded" /\ hinvoked /\ ValueLess(hbody)) =>
        (hstatus = StatusBadRequest /\ hdb = hpre /\ ~hpanic)

\* C23: whenever the storage call of a handler returns a backend I/O error,
\* the response status is 500: no 200 for a rejected write, no 404 for a
\* backend failure.
C23_StorageFailureIs500 ==
    (hpc = "responded" /\ hstorageErr = ErrIO) => hstatus = StatusInternalServerError

(***************************************************************************)
(* C34  Path update validation, for a request the backend answers: POST    *)
(* /update/{kind}/{name}/{value} is answered 404 for an empty name, 400    *)
(* for an unknown kind or a value that does not parse for its kind, and    *)
(* otherwise 200 with the store as SetGauge / SetCounter of the parsed     *)
(* value leaves it; on every status other than 200 the store is unchanged. *)
(***************************************************************************)
C34_PathUpdateValidation ==
    (hreq.route = RouteUpdateValue /\ hpc = "responded") =>
        LET t == hreq.typeMetric
            n == hreq.metric
            v == hreq.value
        IN  /\ ~hpanic
            /\ hstatus # StatusOK => hdb = hpre
            /\ n = "" => hstatus = StatusNotFound
            /\ (n # "" /\ t \notin {"gauge", "counter"}) => hstatus = StatusBadRequest
            /\ (n # "" /\ t = "gauge" /\ ~IsFloatText(v)) => hstatus = StatusBadRequest
            /\ (n # "" /\ t = "counter" /\ ~IsIntText(v)) => hstatus = StatusBadRequest
            /\ (n # "" /\ t = "gauge" /\ IsFloatText(v)) =>
                  /\ hstatus = StatusOK
                  /\ ~hdown => (hdb = DBSetGauge(hpre, n, ParseFloat(v))
                                /\ DBGetGauge(hdb, n).val = ParseFloat(v))
            /\ (n # "" /\ t = "counter" /\ IsIntText(v)) =>
                  /\ hstatus = StatusOK
                  /\ ~hdown => hdb = DBSetCounter(hpre, n, ParseInt(v))

\* the second request has an empty name and a valid kind and value: 404, and
\* the store the first request wrote is as it was
C34_Witness ==
    /\ hreq.route = RouteUpdateValue
    /\ hpc = "responded"
    /\ hreq.metric = ""
    /\ hreq.typeMetric = "gauge"
    /\ hreq.value = "1.5"
    /\ hstatus = StatusNotFound
    /\ hpre # NewDBStorage
    /\ hdb = hpre

\* a counter update applied on top of a stored total
C34_WitnessApplied ==
    /\ hreq.route = RouteUpdateValue
    /\ hpc = "responded"
    /\ ~hdown
    /\ hreq.typeMetric = "counter"
    /\ hstatus = StatusOK
    /\ DBGetCounter(hpre, hreq.metric).val = 1
    /\ DBGetCounter(hdb, hreq.metric).val = 2

\* the row of the name holds a value of the kind
StoredAs(d, n, kind) ==
    /\ n \in DOMAIN d
    /\ IF kind = "gauge" THEN d[n].value.valid ELSE d[n].delta.valid

(***************************************************************************)
(* C35  Path value read, for a request the backend answers: GET            *)
(* /value/{kind}/{name} is answered 200 with the current value as text for *)
(* a name stored with that kind, 404 for a name not stored with that kind, *)
(* 400 for an unknown kind; the store is never changed.                    *)
(***************************************************************************)
C35_PathValueRead ==
    (hreq.route = RouteGetValue /\ hpc = "responded") =>
        LET t == hreq.typeMetric
            n == hreq.metric
        IN  /\ hdb = hpre
            /\ ~hpanic
            /\ t \notin {"gauge", "counter"} => hstatus = StatusBadRequest
            /\ (~hdown /\ t \in {"gauge", "counter"}) =>
                  IF StoredAs(hpre, n, t)
                  THEN /\ hstatus = StatusOK
                       /\ t = "gauge" => htext = hpre[n].value.v
                       /\ t = "counter" => htext = ToString(hpre[n].delta.v)
                  ELSE hstatus = StatusNotFound /\ htext = ""

\* a stored counter total of 1 is read as the text "1"
C35_Witness ==
    /\ hreq.route = RouteGetValue
    /\ hpc = "responded"
    /\ ~hdown
    /\ hreq.typeMetric = "counter"
    /\ StoredAs(hpre, hreq.metric, "counter")
    /\ hpre[hreq.metric].delta.v = 1
    /\ hstatus = StatusOK
    /\ htext = "1"

(***************************************************************************)
(* EncryptDataHybrid / DecryptDataHybrid on byte sequences.  RSA-OAEP and  *)
(* AES-GCM are ideal: a ciphertext byte depends on the whole input, and    *)
(* decryption succeeds on exactly the outputs of encryption under the      *)
(* matching key (and nonce).                                               *)
(***************************************************************************)
MaxPlain == 2      \* bytes of a plaintext
NumKeypairs == 2   \* RSA keypairs
NumAesKeys == 2    \* values rand.Read may give the AES key
NumNonces == 2     \* values io.ReadFull may give the nonce
KeySize == 2       \* privateKey.Size(): bytes of the RSA modulus
NonceSize == 1     \* gcm.NonceSize()
TagSize == 1       \* bytes of the GCM tag

Plaintexts == UNION {[1..k -> {0, 1}] : k \in 0..MaxPlain}
Keypairs == 1..NumKeypairs
AesKeys == 1..NumAesKeys
Nonces == 1..NumNonces

CipherByte(c, k, n, pt, i) == [c |-> c, k |-> k, n |-> n, p |-> pt, i |-> i]
\* a byte that no encryption put there
AlteredByte == CipherByte("altered", 0, 0, <<>>, 0)

\* rsa.EncryptOAEP(hash, rand.Reader, publicKey, aesKey, nil): KeySize bytes
EncryptOAEP(pub, aesKey) ==
    [i \in 1..KeySize |-> CipherByte("rsa", aesKey, pub, <<>>, i)]
\* rsa.DecryptOAEP(hash, rand.Reader, privateKey, encryptedKey, nil)
DecryptOAEP(priv, encryptedKey) ==
    IF \E k \in AesKeys : EncryptOAEP(priv, k) = encryptedKey
    THEN [ok |-> TRUE, key |-> CHOOSE k \in AesKeys : EncryptOAEP(priv, k) = encryptedKey]
    ELSE [ok |-> FALSE, key |-> 0]

\* gcm.Seal(nonce, nonce, data, nil): the nonce, then the sealed data and tag
Seal(aesKey, nonce, data) ==
    [i \in 1..NonceSize |-> CipherByte("nonce", 0, nonce, <<>>, i)]
    \o [i \in 1..(Len(data) + TagSize) |-> CipherByte("gcm", aesKey, nonce, data, i)]
\* gcm.Open(nil, nonce, ciphertext, nil)
Open(aesKey, nonce, ciphertext) ==
    IF \E n \in Nonces, pt \in Plaintexts : Seal(aesKey, n, pt) = nonce \o ciphertext
    THEN [ok |-> TRUE,
          out |-> CHOOSE pt \in Plaintexts :
                     \E n \in Nonces : Seal(aesKey, n, pt) = nonce \o ciphertext]
    ELSE [ok |-> FALSE, out |-> <<>>]

\* EncryptDataHybrid with the AES key and nonce the random source gave
EncryptBytes(pub, data, aesKey, nonce) ==
    EncryptOAEP(pub, aesKey) \o Seal(aesKey, nonce, data)

DecryptFailed == [ok |-> FALSE, out |-> <<>>]

\* the blob is split one byte after the RSA key size
DecryptBytesSplitLate(priv, data) ==
    LET keySize == KeySize + 1 IN
    IF Len(data) < keySize THEN DecryptFailed
    ELSE LET encryptedKey == SubSeq(data, 1, keySize)
             encryptedData == SubSeq(data, keySize + 1, Len(data))
             aes == DecryptOAEP(priv, encryptedKey) IN
         IF ~aes.ok THEN DecryptFailed
         ELSE IF Len(encryptedData) < NonceSize THEN DecryptFailed
         ELSE Open(aes.key, SubSeq(encryptedData, 1, NonceSize),
                   SubSeq(encryptedData, NonceSize + 1, Len(encryptedData)))

\* DecryptDataHybrid
DecryptBytes(priv, data) ==
    LET keySize == KeySize IN
    IF Len(data) < keySize THEN DecryptFailed
    ELSE LET encryptedKey == SubSeq(data, 1, keySize)
             encryptedData == SubSeq(data, keySize + 1, Len(data))
             aes == DecryptOAEP(priv, encryptedKey) IN
         IF ~aes.ok THEN DecryptFailed
         ELSE IF Len(encryptedData) < NonceSize THEN DecryptFailed
         ELSE Open(aes.key, SubSeq(encryptedData, 1, NonceSize),
                   SubSeq(encryptedData, NonceSize + 1, Len(encryptedData)))

cryptoOther == <<storeVars, snapVars, concVars, agentVars, sendVars, serverVars, restoreVars, wireVars, httpVars, batchVars, valueLessVars, persistVars, pollCountVars, classifyVars, poolVars>>

CryptoEncrypt(kp, data, aesKey, nonce) ==
    /\ cpc = "idle"
    /\ cplain' = data
    /\ ckeypair' = kp
    /\ cblob' = EncryptBytes(kp, data, aesKey, nonce)
    /\ cpc' = "encrypted"
    /\ UNCHANGED <<ctamper, cresult, cryptoOther>>

\* a byte of the ciphertext is changed on the way
CryptoAlter(j) ==
    /\ cpc = "encrypted"
    /\ ctamper = "none"
    /\ j \in 1..Len(cblob)
    /\ cblob' = [cblob EXCEPT ![j] = AlteredByte]
    /\ ctamper' = IF j <= KeySize THEN "key part altered" ELSE "sealed part altered"
    /\ UNCHANGED <<cpc, cplain, ckeypair, cresult, cryptoOther>>

\* the ciphertext is cut short on the way
CryptoTruncate(m) ==
    /\ cpc = "encrypted"
    /\ ctamper = "none"
    /\ m \in 0..(Len(cblob) - 1)
    /\ cblob' = SubSeq(cblob, 1, m)
    /\ ctamper' = IF m < KeySize THEN "shorter than the key size" ELSE "sealed part altered"
    /\ UNCHANGED <<cpc, cplain, ckeypair, cresult, cryptoOther>>

CryptoDecrypt ==
    /\ cpc = "encrypted"
    /\ cresult' = DecryptBytes(ckeypair, cblob)
    /\ cpc' = "decrypted"
    /\ UNCHANGED <<cplain, ckeypair, cblob, ctamper, cryptoOther>>

NextCrypto ==
    \/ \E kp \in Keypairs, data \in Plaintexts, aesKey \in AesKeys, nonce \in Nonces :
          CryptoEncrypt(kp, data, aesKey, nonce)
    \/ \E j \in 1..(KeySize + NonceSize + MaxPlain + TagSize) : CryptoAlter(j)
    \/ \E m \in 0..(KeySize + NonceSize + MaxPlain + TagSize) : CryptoTruncate(m)
    \/ CryptoDecrypt

SpecCrypto == Init /\ [][NextCrypto]_vars

\* C25: decrypting what EncryptDataHybrid produced under the matching key
\* returns the plaintext; the ciphertext is the RSA-encrypted AES key in
\* exactly KeySize bytes, then the nonce and the sealed data; a blob shorter
\* than the key size, or with its key part or its sealed part altered, gives
\* an error and no plaintext.
C25_EncryptionRoundTrip ==
    /\ (cpc = "encrypted" /\ ctamper = "none") =>
          /\ Len(cblob) = KeySize + NonceSize + Len(cplain) + TagSize
          /\ \E k \in AesKeys :
                /\ SubSeq(cblob, 1, KeySize) = EncryptOAEP(ckeypair, k)
                /\ \E n \in Nonces :
                      SubSeq(cblob, KeySize + 1, Len(cblob)) = Seal(k, n, cplain)
    /\ cpc = "decrypted" =>
          IF ctamper = "none"
          THEN cresult = [ok |-> TRUE, out |-> cplain]
          ELSE cresult = DecryptFailed

C25_Witness ==
    /\ cpc = "decrypted"
    /\ ctamper = "none"
    /\ Len(cplain) = MaxPlain
    /\ cresult = [ok |-> TRUE, out |-> cplain]

(***************************************************************************)
(* MemStorage.InsertMetricsBatch against concurrent readers.  The loop     *)
(* calls m.SetGauge / m.SetCounter per record, each of which takes and     *)
(* releases m.mu; GetAll, GetGauge and GetCounter take m.mu for their      *)
(* whole body.  A step of the model is one critical section.               *)
(***************************************************************************)
MaxBatchCalls == 2

batchOther == <<storeVars, snapVars, concVars, agentVars, sendVars, serverVars, restoreVars, wireVars, httpVars, cryptoVars, valueLessVars, persistVars, pollCountVars, classifyVars, poolVars>>

\* InsertMetricsBatch(metrics) is called
BatchCall(list) ==
    /\ bpc \in {"idle", "returned"}
    /\ bcalls < MaxBatchCalls
    /\ bcalls' = bcalls + 1
    /\ bbatch' = list
    /\ bidx' = 0
    /\ bpre' = bmem
    /\ bobsAll' = NoGetAll
    /\ bobsGet' = NoGet
    /\ bpc' = "loop"
    /\ UNCHANGED <<bmem, batchOther>>

\* one iteration of the loop: m.SetGauge or m.SetCounter of the next record
BatchRecord ==
    /\ bpc = "loop"
    /\ bidx < Len(bbatch)
    /\ bmem' = MemBatchLoop(bmem, <<bbatch[bidx + 1]>>).st
    /\ bidx' = bidx + 1
    /\ UNCHANGED <<bpc, bbatch, bpre, bobsAll, bobsGet, bcalls, batchOther>>

\* the loop is over: return nil
BatchReturn ==
    /\ bpc = "loop"
    /\ bidx = Len(bbatch)
    /\ bpc' = "returned"
    /\ UNCHANGED <<bmem, bbatch, bidx, bpre, bobsAll, bobsGet, bcalls, batchOther>>

\* another goroutine (the periodic save, a handler) runs GetAll
ReaderGetAll ==
    /\ bpc = "loop"
    /\ \E list \in MemGetAll(bmem) : bobsAll' = [taken |-> TRUE, recs |-> Triples(list)]
    /\ UNCHANGED <<bpc, bmem, bbatch, bidx, bpre, bobsGet, bcalls, batchOther>>

\* another goroutine runs GetGauge(n) / GetCounter(n)
ReaderGet(kind, n) ==
    /\ bpc = "loop"
    /\ bobsGet' = [taken |-> TRUE, kind |-> kind, name |-> n,
                   gauge |-> MemGetGauge(bmem, n), counter |-> MemGetCounter(bmem, n)]
    /\ UNCHANGED <<bpc, bmem, bbatch, bidx, bpre, bobsAll, bcalls, batchOther>>

NextBatch ==
    \/ \E list \in Batches : BatchCall(list)
    \/ BatchRecord
    \/ BatchReturn
    \/ ReaderGetAll
    \/ \E kind \in {"gauge", "counter"}, n \in Names : ReaderGet(kind, n)

SpecBatch == Init /\ [][NextBatch]_vars

\* the store with none, and with all, of the running batch's updates
BatchNone == bpre
BatchAll == MemBatchLoop(bpre, bbatch).st

\* C27: a GetAll, GetGauge or GetCounter running concurrently with
\* InsertMetricsBatch on the in-memory backend observes either none or all of
\* the batch's updates, never a partially applied batch.
C27_BatchAtomic ==
    /\ bobsAll.taken =>
          \/ bobsAll.recs \in {Triples(list) : list \in MemGetAll(BatchNone)}
          \/ bobsAll.recs \in {Triples(list) : list \in MemGetAll(BatchAll)}
    /\ (bobsGet.taken /\ bobsGet.kind = "gauge") =>
          bobsGet.gauge \in {MemGetGauge(BatchNone, bobsGet.name), MemGetGauge(BatchAll, bobsGet.name)}
    /\ (bobsGet.taken /\ bobsGet.kind = "counter") =>
          bobsGet.counter \in {MemGetCounter(BatchNone, bobsGet.name),
                               MemGetCounter(BatchAll, bobsGet.name)}

(***************************************************************************)
(* InsertMetricsBatch, on both backends, with batches whose records may    *)
(* lack the value of their kind (Value nil in a gauge record, Delta nil    *)
(* in a counter record), after some single writes.                         *)
(***************************************************************************)
MaxWrites == 2

GaugeNoValue(id) == [ID |-> id, MType |-> "gauge", Delta |-> NilDelta, Value |-> NilValue]
CounterNoDelta(id) == [ID |-> id, MType |-> "counter", Delta |-> NilDelta, Value |-> NilValue]

LooseRecords == {GaugeRec(n, "1.5") : n \in Names} \cup {CounterRec(n, 1) : n \in Names}
                \cup {GaugeNoValue(n) : n \in Names} \cup {CounterNoDelta(n) : n \in Names}
LooseBatches == UNION {[1..k -> LooseRecords] : k \in 0..MaxBatch}

valueLessOther == <<storeVars, snapVars, concVars, agentVars, sendVars, serverVars, restoreVars, wireVars, httpVars, cryptoVars, batchVars, persistVars, pollCountVars, classifyVars, poolVars>>

VlSetGauge(n, v) ==
    /\ vpc = "writes"
    /\ vwrites < MaxWrites
    /\ vwrites' = vwrites + 1
    /\ vmem' = MemSetGauge(vmem, n, v)
    /\ vdb' = DBSetGauge(vdb, n, v)
    /\ UNCHANGED <<vpc, vpre, vbatch, vpanic, valueLessOther>>

VlSetCounter(n, d) ==
    /\ vpc = "writes"
    /\ vwrites < MaxWrites
    /\ vwrites' = vwrites + 1
    /\ vmem' = MemSetCounter(vmem, n, d)
    /\ vdb' = DBSetCounter(vdb, n, d)
    /\ UNCHANGED <<vpc, vpre, vbatch, vpanic, valueLessOther>>

VlInsertMetricsBatch(list) ==
    /\ vpc = "writes"
    /\ vpre' = [mem |-> vmem, db |-> vdb]
    /\ vbatch' = list
    /\ vmem' = MemInsertMetricsBatch(vmem, list).st
    /\ vpanic' = MemInsertMetricsBatch(vmem, list).panic
    /\ vdb' = DBInsertMetricsBatch(vdb, list)
    /\ vpc' = "batch"
    /\ UNCHANGED <<vwrites, valueLessOther>>

NextValueLess ==
    \/ \E n \in Names, v \in GaugeVals : VlSetGauge(n, v)
    \/ \E n \in Names : VlSetCounter(n, 1)
    \/ \E list \in LooseBatches : VlInsertMetricsBatch(list)

SpecValueLess == Init /\ [][NextValueLess]_vars

\* the record lacks the value of its kind
NoValue(metric) ==
    \/ metric.MType = "gauge" /\ ~metric.Value.set
    \/ metric.MType = "counter" /\ ~metric.Delta.set
\* the ids all of whose records in the batch lack their value
ValueLessIds(list) ==
    {n \in BatchIds(list) : \A i \in 1..Len(list) : list[i].ID = n => NoValue(list[i])}
\* the other records of the batch, in order
RECURSIVE WithValue(_)
WithValue(list) ==
    IF list = <<>> THEN <<>>
    ELSE IF NoValue(Head(list)) THEN WithValue(Tail(list))
    ELSE <<Head(list)>> \o WithValue(Tail(list))

\* what a store holds for a name
MemEntry(m, n) ==
    [gauge   |-> IF n \in DOMAIN m.Gauges THEN <<m.Gauges[n]>> ELSE <<>>,
     counter |-> IF n \in DOMAIN m.Counters THEN <<m.Counters[n]>> ELSE <<>>]
DBEntry(d, n) == IF n \in DOMAIN d THEN <<d[n]>> ELSE <<>>

\* C28: on both backends a batch record without the value of its kind
\* leaves what is stored for its id (kind, gauge value, counter total) as it
\* was, and InsertMetricsBatch applies the other records of the batch and
\* returns normally.
C28_ValueLessNoEffect ==
    vpc = "batch" =>
        /\ ~vpanic
        /\ \A n \in ValueLessIds(vbatch) :
              /\ MemEntry(vmem, n) = MemEntry(vpre.mem, n)
              /\ DBEntry(vdb, n) = DBEntry(vpre.db, n)
        /\ vmem = MemInsertMetricsBatch(vpre.mem, WithValue(vbatch)).st
        /\ vdb = DBInsertMetricsBatch(vpre.db, WithValue(vbatch))

(***************************************************************************)
(* A server on the relational backend with restore enabled: writes, the    *)
(* save at shutdown, and a restart, whose setupServer runs loadFromFile on *)
(* the store that still holds what it held at shutdown.                    *)
(***************************************************************************)
MaxRestarts == 2

\* the loop of loadFromFile on the relational backend
RECURSIVE DBLoadLoop(_, _)
DBLoadLoop(d, list) ==
    IF list = <<>> THEN d
    ELSE LET r == Head(list) IN
         CASE r.MType = "gauge" ->
                DBLoadLoop(IF r.Value.set THEN DBSetGauge(d, r.ID, r.Value.v) ELSE d,
                           Tail(list))
           [] r.MType = "counter" ->
                DBLoadLoop(IF r.Delta.set THEN DBSetCounter(d, r.ID, r.Delta.v) ELSE d,
                           Tail(list))
           [] OTHER -> DBLoadLoop(d, Tail(list))

\* loadFromFile into an empty table instead of the one that persisted
DBLoadFromFileFresh(d, f) ==
    IF ~f.exists THEN NewDBStorage
    ELSE DBLoadLoop(NewDBStorage, deserializeMetrics(f))

\* readFile gives no data for a missing file; no data loads nothing
DBLoadFromFile(d, f) ==
    IF ~f.exists THEN d
    ELSE DBLoadLoop(d, deserializeMetrics(f))

\* the counter total a table holds for a name, 0 when it holds none
TotalIn(d, n) == IF n \in DOMAIN d /\ d[n].delta.valid THEN d[n].delta.v ELSE 0
\* the counter total a snapshot file records for a name
RecordedIn(f, n) ==
    IF f.exists /\ ~f.null /\ CounterRecsOf(f.arr, n) # {}
    THEN SumDeltas(f.arr, CounterRecsOf(f.arr, n)) ELSE 0

\* the positions in which the server process is up
Up == {"running", "restored", "recovered"}

persistOther == <<storeVars, snapVars, concVars, agentVars, sendVars, serverVars, restoreVars, wireVars, httpVars, cryptoVars, batchVars, valueLessVars, pollCountVars, classifyVars, poolVars>>

PersistSetGauge(n, v) ==
    /\ ppc \in Up
    /\ pdb' = DBSetGauge(pdb, n, v)
    /\ ppc' = "running"
    /\ UNCHANGED <<pfile, pbefore, prestarts, persistOther>>

PersistSetCounter(n, d) ==
    /\ ppc \in Up
    /\ TotalIn(pdb, n) + d <= MaxTotal
    /\ pdb' = DBSetCounter(pdb, n, d)
    /\ ppc' = "running"
    /\ UNCHANGED <<pfile, pbefore, prestarts, persistOther>>

\* gracefulShutdown: saveToFile(store.GetAll()), which can fail; the process
\* ends, the table stays
PersistShutdown ==
    /\ ppc \in Up
    /\ \E list \in DBGetAll(pdb) :
          LET r == saveToFile(list, pfile) IN
          /\ pfile' = r.file
          /\ ppc' = IF r.err THEN "unsaved" ELSE "saved"
    /\ UNCHANGED <<pdb, pbefore, prestarts, persistOther>>

\* the process ends without gracefulShutdown: the file stays as the last
\* save left it
PersistKill ==
    /\ ppc \in Up
    /\ ppc' = "unsaved"
    /\ UNCHANGED <<pdb, pfile, pbefore, prestarts, persistOther>>

\* setupServer with cfg.AddrDB and cfg.Restore set: NewDBStorage over the
\* same table, then loadFromFile
PersistRestart ==
    /\ ppc \in {"saved", "unsaved"}
    /\ prestarts < MaxRestarts
    /\ \A n \in Names : TotalIn(pdb, n) + RecordedIn(pfile, n) <= MaxTotal + MaxDelta
    /\ prestarts' = prestarts + 1
    /\ pbefore' = pdb
    /\ pdb' = DBLoadFromFile(pdb, pfile)
    /\ ppc' = IF ppc = "saved" THEN "restored" ELSE "recovered"
    /\ UNCHANGED <<pfile, persistOther>>

NextPersist ==
    \/ \E n \in Names, v \in SnapGaugeVals : PersistSetGauge(n, v)
    \/ \E n \in Names, d \in Deltas : PersistSetCounter(n, d)
    \/ PersistShutdown
    \/ PersistKill
    \/ PersistRestart

SpecPersist == Init /\ [][NextPersist]_vars

\* C29: loadFromFile adds the counter total a snapshot records to the total
\* the store already holds and overwrites a gauge with the recorded value;
\* so a restart of a server on the relational backend, after the save at
\* shutdown, doubles every counter total that was saved.
C29_RestoreAddsCounters ==
    ppc \in {"restored", "recovered"} =>
        \A n \in Names :
            /\ CounterRecsOf(pfile.arr, n) # {} =>
                  /\ DBGetCounter(pdb, n).err = ErrNil
                  /\ DBGetCounter(pdb, n).val = TotalIn(pbefore, n) + RecordedIn(pfile, n)
                  /\ ppc = "restored" =>
                        /\ RecordedIn(pfile, n) = TotalIn(pbefore, n)
                        /\ DBGetCounter(pdb, n).val = 2 * TotalIn(pbefore, n)
            /\ GaugeRecsOf(pfile.arr, n) # {} =>
                  /\ DBGetGauge(pdb, n).err = ErrNil
                  /\ DBGetGauge(pdb, n).val =
                        ParseFloat(pfile.arr[LastOf(GaugeRecsOf(pfile.arr, n))].value.text)

\* a restart after a kill found total 2 for counter a and 1 in the file, and
\* a gauge b whose stored value differed from the recorded one
C29_Witness ==
    /\ ppc = "recovered"
    /\ CounterRecsOf(pfile.arr, "a") # {}
    /\ RecordedIn(pfile, "a") = 1
    /\ TotalIn(pbefore, "a") = 2
    /\ DBGetCounter(pdb, "a").val = 3
    /\ GaugeRecsOf(pfile.arr, "b") # {}
    /\ DBGetGauge(pbefore, "b").err = ErrNil
    /\ DBGetGauge(pbefore, "b").val # DBGetGauge(pdb, "b").val

\* a restart after the save at shutdown doubled counter a from 1 to 2
C29_WitnessDoubled ==
    /\ ppc = "restored"
    /\ CounterRecsOf(pfile.arr, "a") # {}
    /\ TotalIn(pbefore, "a") = 1
    /\ DBGetCounter(pdb, "a").val = 2

(***************************************************************************)
(* PollCount end to end: CollectMetrics goroutines increment the shared    *)
(* m.PollCount (an unsynchronised read and write), every report copies *m  *)
(* and sends the copy's PollCount as the delta of a counter record, and    *)
(* the server adds the delta of every batch it accepts.                    *)
(***************************************************************************)
pollCountOther == <<storeVars, snapVars, concVars, agentVars, sendVars, serverVars, restoreVars, wireVars, httpVars, cryptoVars, batchVars, valueLessVars, persistVars, classifyVars, poolVars>>

\* m.PollCount++ : the read
CollectLoad(p) ==
    /\ qpollPc[p] = "idle"
    /\ qpollReg' = [qpollReg EXCEPT ![p] = qmetrics.PollCount]
    /\ qpollPc' = [qpollPc EXCEPT ![p] = "CountStore"]
    /\ UNCHANGED <<qmetrics, qreports, qserver, pollCountOther>>

\* m.PollCount++ : the write
CollectStore(p) ==
    /\ qpollPc[p] = "CountStore"
    /\ qmetrics' = [qmetrics EXCEPT !.PollCount = qpollReg[p] + 1]
    /\ qpollPc' = [qpollPc EXCEPT ![p] = "done"]
    /\ UNCHANGED <<qpollReg, qreports, qserver, pollCountOther>>

\* SendAllMetricsBatch(..., *m, ...) with PollCount zeroed once the copy is taken
ReportCopyAndReset ==
    /\ Len(qreports) < MaxSends
    /\ qreports' = Append(qreports, [count |-> qmetrics.PollCount,
                                     delta |-> ParseInt(FormatInt(qmetrics.PollCount)),
                                     st    |-> "sending"])
    /\ qmetrics' = [qmetrics EXCEPT !.PollCount = 0]
    /\ UNCHANGED <<qpollPc, qpollReg, qserver, pollCountOther>>

\* SendAllMetricsBatch(..., *m, ...): the copy of *m is taken and the counter
\* record is built from metrics["PollCount"].String()
ReportCopy ==
    /\ Len(qreports) < MaxSends
    /\ qreports' = Append(qreports, [count |-> qmetrics.PollCount,
                                     delta |-> ParseInt(FormatInt(qmetrics.PollCount)),
                                     st    |-> "sending"])
    /\ UNCHANGED <<qmetrics, qpollPc, qpollReg, qserver, pollCountOther>>

\* the batch of report i reaches the server, which stores it, or the
\* delivery fails
ReportDeliver(i, ok) ==
    /\ i \in 1..Len(qreports)
    /\ qreports[i].st = "sending"
    /\ qreports' = [qreports EXCEPT ![i].st = IF ok THEN "ok" ELSE "failed"]
    /\ qserver' = IF ok
                  THEN MemInsertMetricsBatch(qserver, <<CounterRec("PollCount", qreports[i].delta)>>).st
                  ELSE qserver
    /\ UNCHANGED <<qmetrics, qpollPc, qpollReg, pollCountOther>>

NextPollCount ==
    \/ \E p \in 1..MaxCollects : CollectLoad(p)
    \/ \E p \in 1..MaxCollects : CollectStore(p)
    \/ ReportCopy
    \/ \E i \in 1..MaxSends, ok \in BOOLEAN : ReportDeliver(i, ok)

SpecPollCount == Init /\ [][NextPollCount]_vars

\* the sum of the deltas of the reports the server accepted
RECURSIVE SumReported(_)
SumReported(reports) ==
    IF reports = <<>> THEN 0
    ELSE (IF Head(reports).st = "ok" THEN Head(reports).delta ELSE 0) + SumReported(Tail(reports))

ServerPollCount ==
    IF "PollCount" \in DOMAIN qserver.Counters THEN qserver.Counters["PollCount"] ELSE 0

PollsDone == Cardinality({p \in 1..MaxCollects : qpollPc[p] = "done"})

\* C30: a report leaves the agent's PollCount as it was, the delta of every
\* report is the PollCount the agent held when the report copied it, and
\* the server's PollCount total is the sum of the deltas of the reports it
\* accepted.
C30_PollCountCumulative ==
    /\ [](/\ \A i \in 1..Len(qreports) : qreports[i].delta = qreports[i].count
          /\ ServerPollCount = SumReported(qreports))
    /\ [][qreports' # qreports => qmetrics' = qmetrics]_vars

\* two polls, a report after each, both accepted: the server holds 3
C30_Witness ==
    /\ Len(qreports) = 2
    /\ \A i \in 1..2 : qreports[i].st = "ok"
    /\ qreports[1].delta = 1
    /\ qreports[2].delta = 2
    /\ PollsDone = 2
    /\ qmetrics.PollCount = 2
    /\ ServerPollCount = 3
    /\ ServerPollCount > PollsDone

(***************************************************************************)
(* SpecClassify: one call of SendAllMetricsBatch.  A feeding goroutine     *)
(* sends every name of ValuesAllTyped() on the unbuffered inputCh and      *)
(* closes it; rateLimit workers receive names, build the record and append *)
(* it to metricsList under mu; a goroutine closes errCh after wg.Wait();   *)
(* the caller ranges over errCh and then calls sendMetricsBatch.           *)
(***************************************************************************)
classifyOther == <<storeVars, snapVars, concVars, agentVars, sendVars, serverVars, restoreVars, wireVars, httpVars, cryptoVars, batchVars, valueLessVars, persistVars, pollCountVars, poolVars>>

\* SendAllMetricsBatch is called: metrics := m.ValuesAllTyped(), the feeding
\* goroutine and the workers are started, wg.Add(1) for each worker
ClassifyCall(m, limit) ==
    /\ kpc = "call"
    /\ km' = m
    /\ kRateLimit' = limit
    /\ kpending' = DOMAIN ValuesAllTyped(m)
    /\ kworker' = [w \in 1..MaxRate |-> IF w <= limit THEN "recv" ELSE "off"]
    /\ kwg' = limit
    /\ kpc' = "range"
    /\ UNCHANGED <<kinputClosed, kheld, kmetricsList, kerrChClosed, kposts, kbody, classifyOther>>

\* inputCh <- models.Metrics{ID: name, MType: metric.Type()} meets a worker's
\* receive; the worker sets Value or Delta from metrics[metric.ID].String()
WorkerReceive(w, name) ==
    /\ kworker[w] = "recv"
    /\ name \in kpending
    /\ kpending' = kpending \ {name}
    /\ LET metric == ValuesAllTyped(km)[name] IN
       kheld' = [kheld EXCEPT ![w] =
                    IF metric.Type = "gauge"
                    THEN GaugeRec(name, ParseFloat(metric.String))
                    ELSE CounterRec(name, ParseInt(metric.String))]
    /\ kworker' = [kworker EXCEPT ![w] = "append"]
    /\ UNCHANGED <<kpc, km, kRateLimit, kinputClosed, kmetricsList, kwg, kerrChClosed, kposts, kbody, classifyOther>>

\* mu.Lock(); metricsList = append(metricsList, metric); mu.Unlock()
WorkerAppend(w) ==
    /\ kworker[w] = "append"
    /\ kmetricsList' = Append(kmetricsList, kheld[w])
    /\ kheld' = [kheld EXCEPT ![w] = NoRecord]
    /\ kworker' = [kworker EXCEPT ![w] = "recv"]
    /\ UNCHANGED <<kpc, km, kRateLimit, kpending, kinputClosed, kwg, kerrChClosed, kposts, kbody, classifyOther>>

\* the feeding goroutine's loop ends: deferred close(inputCh)
FeederClose ==
    /\ kpc = "range"
    /\ kpending = {}
    /\ ~kinputClosed
    /\ kinputClosed' = TRUE
    /\ UNCHANGED <<kpc, km, kRateLimit, kpending, kworker, kheld, kmetricsList, kwg, kerrChClosed, kposts, kbody, classifyOther>>

\* for metric := range inputCh ends on the closed channel: wg.Done()
WorkerDone(w) ==
    /\ kworker[w] = "recv"
    /\ kinputClosed
    /\ kworker' = [kworker EXCEPT ![w] = "done"]
    /\ kwg' = kwg - 1
    /\ UNCHANGED <<kpc, km, kRateLimit, kpending, kinputClosed, kheld, kmetricsList, kerrChClosed, kposts, kbody, classifyOther>>

\* wg.Wait(); close(errCh)
ClassifyWaiterClose ==
    /\ kpc = "range"
    /\ kwg = 0
    /\ ~kerrChClosed
    /\ kerrChClosed' = TRUE
    /\ UNCHANGED <<kpc, km, kRateLimit, kpending, kinputClosed, kworker, kheld, kmetricsList, kwg, kposts, kbody, classifyOther>>

\* for err := range errCh ends on the closed channel;
\* sendMetricsBatch(metricsList, ...) is called
ClassifyRangeEnds ==
    /\ kpc = "range"
    /\ kerrChClosed
    /\ kbody' = kmetricsList
    /\ kpc' = "send"
    /\ UNCHANGED <<km, kRateLimit, kpending, kinputClosed, kworker, kheld, kmetricsList, kwg, kerrChClosed, kposts, classifyOther>>

\* one attempt of the retrying client.Do in sendMetricsBatch
ClassifyPost(o) ==
    /\ kpc = "send"
    /\ kposts' = kposts + 1
    /\ kpc' = IF DefaultRetryPolicy(o) /\ kposts < RetryMax THEN "send" ELSE "returned"
    /\ UNCHANGED <<km, kRateLimit, kpending, kinputClosed, kworker, kheld, kmetricsList, kwg, kerrChClosed, kbody, classifyOther>>

\* the contents of store.Metrics the agent can hold
MetricsValues ==
    {[Alloc |-> a, RandomValue |-> r, TotalMemory |-> t, PollCount |-> c] :
        a \in GaugeVals, r \in GaugeVals, t \in GaugeVals, c \in Deltas}

NextClassify ==
    \/ \E m \in MetricsValues, limit \in 1..MaxRate : ClassifyCall(m, limit)
    \/ \E w \in 1..MaxRate, name \in MetricsFields : WorkerReceive(w, name)
    \/ \E w \in 1..MaxRate : WorkerAppend(w)
    \/ FeederClose
    \/ \E w \in 1..MaxRate : WorkerDone(w)
    \/ ClassifyWaiterClose
    \/ ClassifyRangeEnds
    \/ \E o \in Outcomes : ClassifyPost(o)

SpecClassify == Init /\ [][NextClassify]_vars

\* the records of the batch that carry a name
RecordsOf(list, name) == {i \in 1..Len(list) : list[i].ID = name}

\* the batch has exactly one record of the right kind and value for the name
CarriedOnce(list, m, name) ==
    /\ Cardinality(RecordsOf(list, name)) = 1
    /\ \A i \in RecordsOf(list, name) :
          list[i] = (IF FieldType(name) = "gauge"
                     THEN GaugeRec(name, m[name])
                     ELSE CounterRec(name, m[name]))

\* what holds of the call: every value ValuesAllTyped lists is carried once,
\* by a batch of no other records, in 1 to 1 + RetryMax POSTs
ClassifyListedOnce ==
    kpc = "returned" =>
        /\ \A name \in DOMAIN ValuesAllTyped(km) : CarriedOnce(kbody, km, name)
        /\ Len(kbody) = Cardinality(DOMAIN ValuesAllTyped(km))
        /\ kposts \in 1..(RetryMax + 1)

\* a step is enabled until the call has returned
ClassifyNoStall ==
    kpc \notin {"call", "returned"} => ENABLED NextClassify

\* C32: when SendAllMetricsBatch has returned it has issued exactly one POST,
\* and the batch carries exactly one record, of the right kind, for every
\* metric value the snapshot holds.
C32_OneCompleteBatch ==
    kpc = "returned" =>
        /\ kposts = 1
        /\ \A f \in MetricsFields : CarriedOnce(kbody, km, f)
        /\ Len(kbody) = Cardinality(MetricsFields)

(***************************************************************************)
(* SpecPool: goroutines that call Get, write the object they were handed   *)
(* and Put it back.  A caller does not touch an object after it has Put    *)
(* it, so no object is Put twice without a Get in between.                 *)
(***************************************************************************)
poolOther == <<storeVars, snapVars, concVars, agentVars, sendVars, serverVars, restoreVars, wireVars, httpVars, cryptoVars, batchVars, valueLessVars, persistVars, pollCountVars, classifyVars>>

\* Get: p.mu.Lock()
PoolGetLock(c) ==
    /\ ocpc[c] = "idle"
    /\ omu = 0
    /\ omu' = c
    /\ ocpc' = [ocpc EXCEPT ![c] = "Get"]
    /\ UNCHANGED <<oitems, oobj, onext, oheld, ofromPool, owasTop, ostamp, oclock, poolOther>>

\* Get with the item left in p.items
PoolGetTakeKeepsItem(c) ==
    /\ ocpc[c] = "Get"
    /\ omu' = 0
    /\ LET n == Len(oitems) IN
       IF n > 0
       THEN /\ oheld' = [oheld EXCEPT ![c] = oitems[n]]
            /\ ofromPool' = [ofromPool EXCEPT ![c] = TRUE]
            /\ owasTop' = [owasTop EXCEPT ![c] =
                              \A i \in 1..n : ostamp[oitems[i]] <= ostamp[oitems[n]]]
            /\ ocpc' = [ocpc EXCEPT ![c] = "got"]
            /\ UNCHANGED oitems
       ELSE /\ ocpc' = [ocpc EXCEPT ![c] = "Factory"]
            /\ UNCHANGED <<oitems, oheld, ofromPool, owasTop>>
    /\ UNCHANGED <<oobj, onext, ostamp, oclock, poolOther>>

\* Get: n := len(p.items); with n > 0 the last item is taken and returned;
\* p.mu.Unlock() on either path
PoolGetTake(c) ==
    /\ ocpc[c] = "Get"
    /\ omu' = 0
    /\ LET n == Len(oitems) IN
       IF n > 0
       THEN /\ oheld' = [oheld EXCEPT ![c] = oitems[n]]
            /\ oitems' = SubSeq(oitems, 1, n - 1)
            /\ ofromPool' = [ofromPool EXCEPT ![c] = TRUE]
            /\ owasTop' = [owasTop EXCEPT ![c] =
                              \A i \in 1..n : ostamp[oitems[i]] <= ostamp[oitems[n]]]
            /\ ocpc' = [ocpc EXCEPT ![c] = "got"]
       ELSE /\ ocpc' = [ocpc EXCEPT ![c] = "Factory"]
            /\ UNCHANGED <<oitems, oheld, ofromPool, owasTop>>
    /\ UNCHANGED <<oobj, onext, ostamp, oclock, poolOther>>

\* Get: return p.Factory()
PoolGetFactory(c) ==
    /\ ocpc[c] = "Factory"
    /\ onext < MaxObjects
    /\ onext' = onext + 1
    /\ oobj' = [oobj EXCEPT ![onext + 1] = ZeroMetrics]
    /\ oheld' = [oheld EXCEPT ![c] = onext + 1]
    /\ ofromPool' = [ofromPool EXCEPT ![c] = FALSE]
    /\ owasTop' = [owasTop EXCEPT ![c] = FALSE]
    /\ ocpc' = [ocpc EXCEPT ![c] = "got"]
    /\ UNCHANGED <<omu, oitems, ostamp, oclock, poolOther>>

\* the caller fills the object it was handed
PoolUse(c, m) ==
    /\ ocpc[c] = "got"
    /\ oobj' = [oobj EXCEPT ![oheld[c]] = m]
    /\ ocpc' = [ocpc EXCEPT ![c] = "using"]
    /\ UNCHANGED <<omu, oitems, onext, oheld, ofromPool, owasTop, ostamp, oclock, poolOther>>

\* Put: v.Reset(), before the mutex is taken
PoolPutReset(c) ==
    /\ ocpc[c] \in {"got", "using"}
    /\ oclock < MaxPuts
    /\ oobj' = [oobj EXCEPT ![oheld[c]] = Reset(@)]
    /\ ocpc' = [ocpc EXCEPT ![c] = "Put"]
    /\ UNCHANGED <<omu, oitems, onext, oheld, ofromPool, owasTop, ostamp, oclock, poolOther>>

\* Put: p.mu.Lock()
PoolPutLock(c) ==
    /\ ocpc[c] = "Put"
    /\ omu = 0
    /\ omu' = c
    /\ ocpc' = [ocpc EXCEPT ![c] = "append"]
    /\ UNCHANGED <<oitems, oobj, onext, oheld, ofromPool, owasTop, ostamp, oclock, poolOther>>

\* Put: p.items = append(p.items, v); p.mu.Unlock()
PoolPutAppend(c) ==
    /\ ocpc[c] = "append"
    /\ oitems' = Append(oitems, oheld[c])
    /\ omu' = 0
    /\ oclock' = oclock + 1
    /\ ostamp' = [ostamp EXCEPT ![oheld[c]] = oclock + 1]
    /\ oheld' = [oheld EXCEPT ![c] = 0]
    /\ ocpc' = [ocpc EXCEPT ![c] = "idle"]
    /\ UNCHANGED <<oobj, onext, ofromPool, owasTop, poolOther>>

NextPool ==
    \/ \E c \in Callers : PoolGetLock(c)
    \/ \E c \in Callers : PoolGetTake(c)
    \/ \E c \in Callers : PoolGetFactory(c)
    \/ \E c \in Callers, m \in UsedMetrics : PoolUse(c, m)
    \/ \E c \in Callers : PoolPutReset(c)
    \/ \E c \in Callers : PoolPutLock(c)
    \/ \E c \in Callers : PoolPutAppend(c)

SpecPool == Init /\ [][NextPool]_vars

\* C36: no object is held by two callers or held while it is in the pool; an
\* object Get has just returned has every field zero; one that came from the
\* pool was the object put most recently; one the factory made is held by
\* nobody else and was never in the pool; and the factory is called only
\* when Get found the pool empty.
C36_PoolReuse ==
    /\ [](/\ \A c, d \in Callers : (c # d /\ oheld[c] # 0) => oheld[c] # oheld[d]
          /\ \A c \in Callers, i \in 1..Len(oitems) : oheld[c] # oitems[i]
          /\ \A i, j \in 1..Len(oitems) : oitems[i] = oitems[j] => i = j
          /\ \A c \in Callers :
                ocpc[c] = "got" =>
                    /\ oheld[c] # 0
                    /\ oobj[oheld[c]] = ZeroMetrics
                    /\ ofromPool[c] => (owasTop[c] /\ ostamp[oheld[c]] > 0)
                    /\ ~ofromPool[c] => ostamp[oheld[c]] = 0)
    /\ [][\A c \in Callers :
             (ocpc[c] = "Get" /\ ocpc'[c] = "Factory") => oitems = <<>>]_vars

\* a caller is handed, zeroed, the object the other caller filled and put
\* back last, while an object put earlier stays in the pool
C36_Witness ==
    /\ ocpc[1] = "got"
    /\ ofromPool[1]
    /\ owasTop[1]
    /\ Len(oitems) = 1
    /\ ostamp[oheld[1]] > ostamp[oitems[1]]
    /\ oobj[oheld[1]] = ZeroMetrics
    /\ oclock >= 3

====
